---- MODULE Spec2Model ----
(***************************************************************************)
(* The zxnDMA simulation (src/src/remotes/zsimulator/zxndma.ts) as a state *)
(* machine.  The variables are the fields of class ZxnDma; every method is *)
(* an operator on the record of those fields and keeps the method's name.  *)
(* The three public entry points writePort, readPort and execute are the   *)
(* actions.  The driver (the Z80 program that talks to the DMA port) is    *)
(* the variable prog: a sequence of sets of calls it may issue next.       *)
(***************************************************************************)
EXTENDS Integers, Sequences, FiniteSets, TLC

VARIABLES
    \* ---- fields of ZxnDma
    writePortFunc,              \* name of the method that handles the next written byte
    nextDecodeBitMask,
    transferDirectionPortAtoB,
    portAstartAddress,
    portBstartAddress,
    blockLength,
    portAisIo,
    portBisIo,
    portAadd,
    portBadd,
    portAcycleLength,
    portBcycleLength,
    zxnPrescalar,
    burstMode,
    autoRestart,
    readMask,
    lastReadSequenceBit,
    enabled,
    statusByteRR0,
    blockCounterRR12,
    portAaddressCounterRR34,
    portBaddressCounterRR56,
    lastOperation,
    bl,
    \* ---- the bus-accurate video timing generator
    ula,                        \* the fields of the Zx81UlaScreen object, as a record
    \* ---- the snapshot
    memBuffer,                  \* the MemBuffer the peripherals are serialized to
    saved,                      \* the object as it was when serialize was last called
    \* ---- what the controller does to its surroundings
    emitted,                    \* the "log" events emitted by the last call
    busReads,                   \* bus reads issued since construction
    busWrites,                  \* bus writes issued since construction
    \* ---- the caller
    prog,                       \* the calls still to come: a sequence of sets of calls
    lastCall,                   \* the last call, its argument and its return value
    \* ---- history, for stating the claims
    sel,                        \* the register sequence being written
    readHist,                   \* the reads since the last write or execute
    ulaHist,                    \* the video timing generator's last executes and last frame
    disHist,                    \* the slots reported to the last setNewAddresses
    \* ---- the other objects
    dis,                        \* the fields of the DisassemblyClass object
    customApi                   \* the handlers the user script installed in CustomCode.api

dmaVars == <<writePortFunc, nextDecodeBitMask, transferDirectionPortAtoB,
             portAstartAddress, portBstartAddress, blockLength, portAisIo,
             portBisIo, portAadd, portBadd, portAcycleLength, portBcycleLength,
             zxnPrescalar, burstMode, autoRestart, readMask, lastReadSequenceBit,
             enabled, statusByteRR0, blockCounterRR12, portAaddressCounterRR34,
             portBaddressCounterRR56, lastOperation, bl>>

vars == <<dmaVars, ula, memBuffer, saved,
          emitted, busReads, busWrites, prog, lastCall, sel, readHist, ulaHist,
          disHist, dis, disHist, customApi>>

(***************************************************************************)
(* The groups of fields the frame conditions speak of.                     *)
(***************************************************************************)
RegisterFile ==
    <<transferDirectionPortAtoB, portAstartAddress, portBstartAddress, blockLength,
      portAisIo, portBisIo, portAadd, portBadd, portAcycleLength, portBcycleLength,
      zxnPrescalar, burstMode, autoRestart>>

Counters == <<blockCounterRR12, portAaddressCounterRR34, portBaddressCounterRR56>>

ReadSequence == <<readMask, lastReadSequenceBit>>

DecodeState == <<writePortFunc, nextDecodeBitMask>>

Bus == <<busReads, busWrites>>

(***************************************************************************)
(* Bit operations of the source (&, |, ^ on non-negative numbers).         *)
(***************************************************************************)
RECURSIVE BitAnd(_, _)
BitAnd(a, b) ==
    IF a = 0 \/ b = 0 THEN 0
    ELSE (a % 2) * (b % 2) + 2 * BitAnd(a \div 2, b \div 2)

RECURSIVE BitOr(_, _)
BitOr(a, b) ==
    IF a = 0 THEN b
    ELSE IF b = 0 THEN a
    ELSE (IF a % 2 = 1 \/ b % 2 = 1 THEN 1 ELSE 0) + 2 * BitOr(a \div 2, b \div 2)

RECURSIVE BitXor(_, _)
BitXor(a, b) ==
    IF a = 0 THEN b
    ELSE IF b = 0 THEN a
    ELSE ((a + b) % 2) + 2 * BitXor(a \div 2, b \div 2)

\* mask &= ~bit
BitClear(mask, bit) == mask - BitAnd(mask, bit)

Byte == 0 .. 255

(***************************************************************************)
(* The object: the record of all fields, with the emitter's and the bus's  *)
(* side carried along so that a method can act on them.                    *)
(***************************************************************************)
This ==
    [ writePortFunc |-> writePortFunc,
      nextDecodeBitMask |-> nextDecodeBitMask,
      transferDirectionPortAtoB |-> transferDirectionPortAtoB,
      portAstartAddress |-> portAstartAddress,
      portBstartAddress |-> portBstartAddress,
      blockLength |-> blockLength,
      portAisIo |-> portAisIo,
      portBisIo |-> portBisIo,
      portAadd |-> portAadd,
      portBadd |-> portBadd,
      portAcycleLength |-> portAcycleLength,
      portBcycleLength |-> portBcycleLength,
      zxnPrescalar |-> zxnPrescalar,
      burstMode |-> burstMode,
      autoRestart |-> autoRestart,
      readMask |-> readMask,
      lastReadSequenceBit |-> lastReadSequenceBit,
      enabled |-> enabled,
      statusByteRR0 |-> statusByteRR0,
      blockCounterRR12 |-> blockCounterRR12,
      portAaddressCounterRR34 |-> portAaddressCounterRR34,
      portBaddressCounterRR56 |-> portBaddressCounterRR56,
      lastOperation |-> lastOperation,
      bl |-> bl,
      emitted |-> << >>,
      busReads |-> busReads,
      busWrites |-> busWrites ]

SetThis(d) ==
    /\ writePortFunc' = d.writePortFunc
    /\ nextDecodeBitMask' = d.nextDecodeBitMask
    /\ transferDirectionPortAtoB' = d.transferDirectionPortAtoB
    /\ portAstartAddress' = d.portAstartAddress
    /\ portBstartAddress' = d.portBstartAddress
    /\ blockLength' = d.blockLength
    /\ portAisIo' = d.portAisIo
    /\ portBisIo' = d.portBisIo
    /\ portAadd' = d.portAadd
    /\ portBadd' = d.portBadd
    /\ portAcycleLength' = d.portAcycleLength
    /\ portBcycleLength' = d.portBcycleLength
    /\ zxnPrescalar' = d.zxnPrescalar
    /\ burstMode' = d.burstMode
    /\ autoRestart' = d.autoRestart
    /\ readMask' = d.readMask
    /\ lastReadSequenceBit' = d.lastReadSequenceBit
    /\ enabled' = d.enabled
    /\ statusByteRR0' = d.statusByteRR0
    /\ blockCounterRR12' = d.blockCounterRR12
    /\ portAaddressCounterRR34' = d.portAaddressCounterRR34
    /\ portBaddressCounterRR56' = d.portBaddressCounterRR56
    /\ lastOperation' = d.lastOperation
    /\ bl' = d.bl
    /\ emitted' = d.emitted
    /\ busReads' = d.busReads
    /\ busWrites' = d.busWrites

\* this.emit("log", ...): the decode messages carry the register number, the
\* port messages the byte.
emit(d, what, n) == [d EXCEPT !.emitted = Append(@, <<what, n>>)]

\* The text of lastOperation, as its parts.
OperationText(text, count, src, dst) ==
    [text |-> text, count |-> count, src |-> src, dst |-> dst]

(***************************************************************************)
(* The commands of WR6.                                                    *)
(***************************************************************************)
resetPortAtiming(d) == [d EXCEPT !.portAcycleLength = 0]

resetPortBtiming(d) == [d EXCEPT !.portBcycleLength = 0]

readStatusByte(d) == d

reinitializeStatusByte(d) == [d EXCEPT !.statusByteRR0 = BitOr(@, 48)]

initializeReadSequence(d) == [d EXCEPT !.lastReadSequenceBit = 128]

load(d) ==
    [d EXCEPT !.portAaddressCounterRR34 = d.portAstartAddress,
              !.portBaddressCounterRR56 = d.portBstartAddress,
              !.blockCounterRR12 = 0]

\* continue loading the address counters as load does.
continue_AsLoad(d) ==
    [d EXCEPT !.portAaddressCounterRR34 = d.portAstartAddress,
              !.portBaddressCounterRR56 = d.portBstartAddress,
              !.blockCounterRR12 = 0]

continue(d) == [d EXCEPT !.blockCounterRR12 = 0]

reset(d) ==
    [d EXCEPT !.autoRestart = FALSE,
              !.portAcycleLength = 0,
              !.portBcycleLength = 0]

enableDma(d, on) == [d EXCEPT !.enabled = on]

checkLastByte(d) ==
    IF d.nextDecodeBitMask = 0
    THEN [d EXCEPT !.writePortFunc = "decodeWRGroup"]
    ELSE d

(***************************************************************************)
(* The register handlers.  Each takes the object and the written byte and  *)
(* gives the object afterwards.                                            *)
(***************************************************************************)
\* writeWR0 taking the high bytes before the low bytes.
writeWR0_HighByteFirst(d, value) ==
    checkLastByte(
        IF d.nextDecodeBitMask = 0
        THEN [emit(d, "decoded as WR", 0) EXCEPT
                !.transferDirectionPortAtoB = (BitAnd(value, 4) = 4),
                !.nextDecodeBitMask = BitAnd(value, 120)]
        ELSE IF BitAnd(d.nextDecodeBitMask, 16) # 0
        THEN [d EXCEPT
                !.portAstartAddress = BitOr(BitAnd(@, 255), value * 256),
                !.nextDecodeBitMask = BitClear(@, 16)]
        ELSE IF BitAnd(d.nextDecodeBitMask, 8) # 0
        THEN [d EXCEPT
                !.portAstartAddress = BitOr(BitAnd(@, 65280), value),
                !.nextDecodeBitMask = BitClear(@, 8)]
        ELSE IF BitAnd(d.nextDecodeBitMask, 64) # 0
        THEN [d EXCEPT
                !.blockLength = BitOr(BitAnd(@, 255), value * 256),
                !.nextDecodeBitMask = BitClear(@, 64)]
        ELSE IF BitAnd(d.nextDecodeBitMask, 32) # 0
        THEN [d EXCEPT
                !.blockLength = BitOr(BitAnd(@, 65280), value),
                !.nextDecodeBitMask = BitClear(@, 32)]
        ELSE d)

writeWR0(d, value) ==
    checkLastByte(
        IF d.nextDecodeBitMask = 0
        THEN [emit(d, "decoded as WR", 0) EXCEPT
                !.transferDirectionPortAtoB = (BitAnd(value, 4) = 4),
                !.nextDecodeBitMask = BitAnd(value, 120)]
        ELSE IF BitAnd(d.nextDecodeBitMask, 8) # 0
        THEN [d EXCEPT
                !.portAstartAddress = BitOr(BitAnd(@, 65280), value),
                !.nextDecodeBitMask = BitClear(@, 8)]
        ELSE IF BitAnd(d.nextDecodeBitMask, 16) # 0
        THEN [d EXCEPT
                !.portAstartAddress = BitOr(BitAnd(@, 255), value * 256),
                !.nextDecodeBitMask = BitClear(@, 16)]
        ELSE IF BitAnd(d.nextDecodeBitMask, 32) # 0
        THEN [d EXCEPT
                !.blockLength = BitOr(BitAnd(@, 65280), value),
                !.nextDecodeBitMask = BitClear(@, 32)]
        ELSE IF BitAnd(d.nextDecodeBitMask, 64) # 0
        THEN [d EXCEPT
                !.blockLength = BitOr(BitAnd(@, 255), value * 256),
                !.nextDecodeBitMask = BitClear(@, 64)]
        ELSE d)

\* The address step of the first byte of WR1 and WR2.
PortAdd(value) ==
    IF BitAnd(value, 32) # 0 THEN 0
    ELSE IF BitAnd(value, 16) # 0 THEN 1
    ELSE -1

\* writeWR1 testing bit 4 of the first byte before bit 5.
writeWR1_IncrementBeforeFixed(d, value) ==
    checkLastByte(
        IF d.nextDecodeBitMask = 0
        THEN [emit(d, "decoded as WR", 1) EXCEPT
                !.portAisIo = (BitAnd(value, 8) = 8),
                !.portAadd = IF BitAnd(value, 16) # 0 THEN 1
                             ELSE IF BitAnd(value, 32) # 0 THEN 0
                             ELSE -1,
                !.nextDecodeBitMask = BitAnd(value, 64)]
        ELSE LET clBits == BitAnd(value, 3)
             IN  [d EXCEPT
                    !.portAcycleLength =
                        IF clBits # 3 THEN 1 + BitXor(clBits, 3) ELSE @,
                    !.nextDecodeBitMask = 0])

\* writeWR1 with the encoded cycle length 3 resetting the override.
writeWR1_ThreeResets(d, value) ==
    checkLastByte(
        IF d.nextDecodeBitMask = 0
        THEN [emit(d, "decoded as WR", 1) EXCEPT
                !.portAisIo = (BitAnd(value, 8) = 8),
                !.portAadd = PortAdd(value),
                !.nextDecodeBitMask = BitAnd(value, 64)]
        ELSE LET clBits == BitAnd(value, 3)
             IN  [d EXCEPT
                    !.portAcycleLength =
                        IF clBits # 3 THEN 1 + BitXor(clBits, 3) ELSE 0,
                    !.nextDecodeBitMask = 0])

writeWR1(d, value) ==
    checkLastByte(
        IF d.nextDecodeBitMask = 0
        THEN [emit(d, "decoded as WR", 1) EXCEPT
                !.portAisIo = (BitAnd(value, 8) = 8),
                !.portAadd = PortAdd(value),
                !.nextDecodeBitMask = BitAnd(value, 64)]
        ELSE LET clBits == BitAnd(value, 3)
             IN  [d EXCEPT
                    !.portAcycleLength =
                        IF clBits # 3 THEN 1 + BitXor(clBits, 3) ELSE @,
                    !.nextDecodeBitMask = 0])

\* writeWR2 ending the sequence after the cycle-length byte.
writeWR2_NoPrescalarByte(d, value) ==
    checkLastByte(
        IF d.nextDecodeBitMask = 0
        THEN [emit(d, "decoded as WR", 2) EXCEPT
                !.portBisIo = (BitAnd(value, 8) = 8),
                !.portBadd = PortAdd(value),
                !.nextDecodeBitMask = BitAnd(value, 64)]
        ELSE LET clBits == BitAnd(value, 3)
             IN  [d EXCEPT
                    !.portBcycleLength =
                        IF clBits # 3 THEN 1 + BitXor(clBits, 3) ELSE @,
                    !.nextDecodeBitMask = 0])

writeWR2(d, value) ==
    checkLastByte(
        IF d.nextDecodeBitMask = 0
        THEN [emit(d, "decoded as WR", 2) EXCEPT
                !.portBisIo = (BitAnd(value, 8) = 8),
                !.portBadd = PortAdd(value),
                !.nextDecodeBitMask = BitAnd(value, 64)]
        ELSE IF BitAnd(d.nextDecodeBitMask, 64) # 0
        THEN LET clBits == BitAnd(value, 3)
             IN  [d EXCEPT
                    !.portBcycleLength =
                        IF clBits # 3 THEN 1 + BitXor(clBits, 3) ELSE @,
                    !.nextDecodeBitMask = BitAnd(value, 32)]
        ELSE IF BitAnd(d.nextDecodeBitMask, 32) # 0
        THEN [d EXCEPT !.zxnPrescalar = value, !.nextDecodeBitMask = 0]
        ELSE [d EXCEPT !.nextDecodeBitMask = 0])

\* writeWR3 leaving itself installed for the next byte.
writeWR3_StaysInstalled(d, value) ==
    enableDma(emit(d, "decoded as WR", 3), BitAnd(value, 64) # 0)

writeWR3(d, value) ==
    [enableDma(emit(d, "decoded as WR", 3), BitAnd(value, 64) # 0) EXCEPT
        !.writePortFunc = "decodeWRGroup"]

\* writeWR4 taking the high byte of the port-B start address first.
writeWR4_HighByteFirst(d, value) ==
    checkLastByte(
        IF d.nextDecodeBitMask = 0
        THEN LET mode == BitAnd(value, 96) \div 32
             IN  [emit(d, "decoded as WR", 4) EXCEPT
                    !.burstMode = IF mode # 3 THEN (mode = 2) ELSE @,
                    !.nextDecodeBitMask = BitAnd(value, 12)]
        ELSE IF BitAnd(d.nextDecodeBitMask, 8) # 0
        THEN [d EXCEPT
                !.portBstartAddress = BitOr(BitAnd(@, 255), value * 256),
                !.nextDecodeBitMask = BitClear(@, 8)]
        ELSE IF BitAnd(d.nextDecodeBitMask, 4) # 0
        THEN [d EXCEPT
                !.portBstartAddress = BitOr(BitAnd(@, 65280), value),
                !.nextDecodeBitMask = 0]
        ELSE d)

writeWR4(d, value) ==
    checkLastByte(
        IF d.nextDecodeBitMask = 0
        THEN LET mode == BitAnd(value, 96) \div 32
             IN  [emit(d, "decoded as WR", 4) EXCEPT
                    !.burstMode = IF mode # 3 THEN (mode = 2) ELSE @,
                    !.nextDecodeBitMask = BitAnd(value, 12)]
        ELSE IF BitAnd(d.nextDecodeBitMask, 4) # 0
        THEN [d EXCEPT
                !.portBstartAddress = BitOr(BitAnd(@, 65280), value),
                !.nextDecodeBitMask = BitClear(@, 4)]
        ELSE IF BitAnd(d.nextDecodeBitMask, 8) # 0
        THEN [d EXCEPT
                !.portBstartAddress = BitOr(BitAnd(@, 255), value * 256),
                !.nextDecodeBitMask = 0]
        ELSE d)

writeWR5(d, value) ==
    [emit(d, "decoded as WR", 5) EXCEPT
        !.autoRestart = (BitAnd(value, 32) # 0),
        !.writePortFunc = "decodeWRGroup"]

\* writeWR6 taking every unknown command for the reset command.
writeWR6_UnknownCommandResets(d, value) ==
    checkLastByte(
        IF d.nextDecodeBitMask = 0
        THEN LET e == emit(d, "decoded as WR", 6)
             IN  CASE value = 199 -> resetPortAtiming(e)
                   [] value = 203 -> resetPortBtiming(e)
                   [] value = 191 -> readStatusByte(e)
                   [] value = 139 -> reinitializeStatusByte(e)
                   [] value = 167 -> initializeReadSequence(e)
                   [] value = 207 -> load(e)
                   [] value = 211 -> continue(e)
                   [] value = 135 -> enableDma(e, TRUE)
                   [] value = 131 -> enableDma(e, FALSE)
                   [] value = 187 -> [e EXCEPT !.nextDecodeBitMask = BitAnd(value, 128)]
                   [] OTHER -> reset(e)
        ELSE IF BitAnd(d.nextDecodeBitMask, 128) # 0
        THEN [d EXCEPT !.readMask = BitAnd(value, 127), !.nextDecodeBitMask = 0]
        ELSE d)

\* writeWR6 restarting the read sequence when the read mask is written.
writeWR6_MaskRestartsSequence(d, value) ==
    checkLastByte(
        IF d.nextDecodeBitMask = 0
        THEN LET e == emit(d, "decoded as WR", 6)
             IN  CASE value = 195 -> reset(e)
                   [] value = 199 -> resetPortAtiming(e)
                   [] value = 203 -> resetPortBtiming(e)
                   [] value = 191 -> readStatusByte(e)
                   [] value = 139 -> reinitializeStatusByte(e)
                   [] value = 167 -> initializeReadSequence(e)
                   [] value = 207 -> load(e)
                   [] value = 211 -> continue(e)
                   [] value = 135 -> enableDma(e, TRUE)
                   [] value = 131 -> enableDma(e, FALSE)
                   [] value = 187 -> [e EXCEPT !.nextDecodeBitMask = BitAnd(value, 128)]
                   [] OTHER -> e
        ELSE IF BitAnd(d.nextDecodeBitMask, 128) # 0
        THEN [initializeReadSequence(d) EXCEPT
                !.readMask = BitAnd(value, 127), !.nextDecodeBitMask = 0]
        ELSE d)

writeWR6(d, value) ==
    checkLastByte(
        IF d.nextDecodeBitMask = 0
        THEN LET e == emit(d, "decoded as WR", 6)
             IN  CASE value = 195 -> reset(e)
                   [] value = 199 -> resetPortAtiming(e)
                   [] value = 203 -> resetPortBtiming(e)
                   [] value = 191 -> readStatusByte(e)
                   [] value = 139 -> reinitializeStatusByte(e)
                   [] value = 167 -> initializeReadSequence(e)
                   [] value = 207 -> load(e)
                   [] value = 211 -> continue(e)
                   [] value = 135 -> enableDma(e, TRUE)
                   [] value = 131 -> enableDma(e, FALSE)
                   [] value = 187 -> [e EXCEPT !.nextDecodeBitMask = BitAnd(value, 128)]
                   [] OTHER -> e
        ELSE IF BitAnd(d.nextDecodeBitMask, 128) # 0
        THEN [d EXCEPT !.readMask = BitAnd(value, 127), !.nextDecodeBitMask = 0]
        ELSE d)

\* this.writePortFunc(value) with writePortFunc one of the register handlers.
CallHandler(d, value) ==
    CASE d.writePortFunc = "writeWR0" -> writeWR0(d, value)
      [] d.writePortFunc = "writeWR1" -> writeWR1(d, value)
      [] d.writePortFunc = "writeWR2" -> writeWR2(d, value)
      [] d.writePortFunc = "writeWR3" -> writeWR3(d, value)
      [] d.writePortFunc = "writeWR4" -> writeWR4(d, value)
      [] d.writePortFunc = "writeWR5" -> writeWR5(d, value)
      [] d.writePortFunc = "writeWR6" -> writeWR6(d, value)

\* decodeWRGroup with the test of bit 2 inverted: WR1 and WR2 exchanged.
decodeWRGroup_WR1WR2Exchanged(d, value) ==
    LET AA == BitAnd(value, 3)
        func ==
            IF BitAnd(value, 128) # 0
            THEN CASE AA = 0 -> "writeWR3"
                   [] AA = 1 -> "writeWR4"
                   [] AA = 2 -> "writeWR5"
                   [] AA = 3 -> "writeWR6"
            ELSE IF AA = 0
            THEN IF BitAnd(value, 4) # 0 THEN "writeWR2" ELSE "writeWR1"
            ELSE "writeWR0"
    IN  CallHandler([d EXCEPT !.writePortFunc = func], value)

decodeWRGroup(d, value) ==
    LET AA == BitAnd(value, 3)
        func ==
            IF BitAnd(value, 128) # 0
            THEN CASE AA = 0 -> "writeWR3"
                   [] AA = 1 -> "writeWR4"
                   [] AA = 2 -> "writeWR5"
                   [] AA = 3 -> "writeWR6"
            ELSE IF AA = 0
            THEN IF BitAnd(value, 4) # 0 THEN "writeWR1" ELSE "writeWR2"
            ELSE "writeWR0"
    IN  CallHandler([d EXCEPT !.writePortFunc = func], value)

writePort(d, value) ==
    LET e == emit(d, "port write", value)
    IN  IF e.writePortFunc = "decodeWRGroup"
        THEN decodeWRGroup(e, value)
        ELSE CallHandler(e, value)

(***************************************************************************)
(* readPort: the do-while that rotates lastReadSequenceBit to the next set *)
(* bit of the read mask, and the byte that bit selects.                    *)
(***************************************************************************)
RECURSIVE RotateReadSequenceBit(_, _)
RotateReadSequenceBit(mask, bit) ==
    LET shifted == bit * 2
        rotated == IF shifted > 127 THEN 1 ELSE shifted
    IN  IF BitAnd(mask, rotated) = 0
        THEN RotateReadSequenceBit(mask, rotated)
        ELSE rotated

ReadValue(d) ==
    IF BitAnd(d.lastReadSequenceBit, 1) # 0 THEN d.statusByteRR0
    ELSE IF BitAnd(d.lastReadSequenceBit, 2) # 0 THEN BitAnd(d.blockCounterRR12, 255)
    ELSE IF BitAnd(d.lastReadSequenceBit, 4) # 0 THEN BitAnd(d.blockCounterRR12 \div 256, 255)
    ELSE IF BitAnd(d.lastReadSequenceBit, 8) # 0 THEN BitAnd(d.portAaddressCounterRR34, 255)
    ELSE IF BitAnd(d.lastReadSequenceBit, 16) # 0 THEN BitAnd(d.portAaddressCounterRR34 \div 256, 255)
    ELSE IF BitAnd(d.lastReadSequenceBit, 32) # 0 THEN BitAnd(d.portBaddressCounterRR56, 255)
    ELSE BitAnd(d.portBaddressCounterRR56 \div 256, 255)

\* readPort rotating the pointer once although the read mask is 0.
readPort_EmptyMaskRotates(d) ==
    LET e == IF d.readMask = 0
             THEN [d EXCEPT !.lastReadSequenceBit = IF @ * 2 > 127 THEN 1 ELSE @ * 2]
             ELSE [d EXCEPT !.lastReadSequenceBit =
                                RotateReadSequenceBit(d.readMask, d.lastReadSequenceBit)]
        readValue == IF d.readMask = 0 THEN 0 ELSE ReadValue(e)
    IN  [this |-> emit(e, "port read", readValue), ret |-> readValue]

\* readPort with a while loop for the do-while: a pointer on a set bit stays.
readPort_WhileForDoWhile(d) ==
    LET e == IF d.readMask = 0 \/ BitAnd(d.readMask, d.lastReadSequenceBit) # 0
             THEN d
             ELSE [d EXCEPT !.lastReadSequenceBit =
                                RotateReadSequenceBit(d.readMask, d.lastReadSequenceBit)]
        readValue == IF d.readMask = 0 THEN 0 ELSE ReadValue(e)
    IN  [this |-> emit(e, "port read", readValue), ret |-> readValue]

\* Gives the object afterwards and the returned byte.
readPort(d) ==
    LET e == IF d.readMask = 0
             THEN d
             ELSE [d EXCEPT !.lastReadSequenceBit =
                                RotateReadSequenceBit(d.readMask, d.lastReadSequenceBit)]
        readValue == IF d.readMask = 0 THEN 0 ELSE ReadValue(e)
    IN  [this |-> emit(e, "port read", readValue), ret |-> readValue]

(***************************************************************************)
(* The transfer.                                                           *)
(***************************************************************************)
\* Both branches are unimplemented in the source: no bus access, the value 0.
getSrcAtAddress(d, address, isIo) ==
    IF isIo THEN 0 ELSE 0

readSrc(d) ==
    IF d.transferDirectionPortAtoB
    THEN getSrcAtAddress(d, d.portAaddressCounterRR34, d.portAisIo)
    ELSE getSrcAtAddress(d, d.portBaddressCounterRR56, d.portBisIo)

\* Both branches are unimplemented in the source: nothing is written.
setDstAtAddress(d, address, isIo, value) ==
    IF isIo THEN d ELSE d

writeDst(d, value) ==
    IF d.transferDirectionPortAtoB
    THEN setDstAtAddress(d, d.portBaddressCounterRR56, d.portBisIo, value)
    ELSE setDstAtAddress(d, d.portAaddressCounterRR34, d.portAisIo, value)

\* portAtstates with the memory timing for an I/O port.
portAtstates_IoAsMemory(d) ==
    IF d.portAcycleLength = 0
    THEN 3
    ELSE d.portAcycleLength

portAtstates(d) ==
    IF d.portAcycleLength = 0
    THEN IF d.portAisIo THEN 4 ELSE 3
    ELSE d.portAcycleLength

portBtstates(d) ==
    IF d.portBcycleLength = 0
    THEN IF d.portBisIo THEN 4 ELSE 3
    ELSE d.portBcycleLength

\* The sum without the mask.
Mask16_NoMask(x) == x

\* x & 0xFFFF: the low 16 bits of the two's complement of x, which for a
\* negative x are those of x + 2^32, that is x modulo 2^16 (% gives 0 .. 65535).
Mask16(x) == x % 65536

\* One pass of the body of the for loop of copyContinuous.
CopyStep(d) ==
    LET value == readSrc(d)
        w == writeDst(d, value)
    IN  [w EXCEPT
            !.portAaddressCounterRR34 = Mask16(@ + w.portAadd),
            !.portBaddressCounterRR56 = Mask16(@ + w.portBadd)]

\* The element of a set of one element.
TheOne(s) == CHOOSE r \in s : TRUE

\* n passes of the body, one after the other.  The passes are split in two
\* halves, the first evaluated (as the bound variable half) before the second,
\* so that the evaluation nests only log n deep.
RECURSIVE CopySteps(_, _)
CopySteps(d, n) ==
    IF n = 0 THEN d
    ELSE IF n = 1 THEN CopyStep(d)
    ELSE TheOne({CopySteps(half, n - (n \div 2)) : half \in {CopySteps(d, n \div 2)}})

\* for (let i = 0; i < this.blockLength; i++) ...: the body reads neither i
\* nor changes blockLength, so the loop is blockLength passes of the body.
CopyLoop(d) == CopySteps(d, d.blockLength)

PortText(start, add, isIo) ==
    <<start, IF add = 0 THEN "" ELSE IF add > 0 THEN "++" ELSE "--", isIo>>

\* copyContinuous leaving the number of transferred bytes in the block counter.
copyContinuous_CountsTheBlock(d) ==
    IF d.zxnPrescalar = 0
    THEN LET c == CopyLoop(d)
             t == IF c.blockLength = 0 THEN 0 ELSE 1
             tStates == (portAtstates(c) + portBtstates(c)) * c.blockLength
             portA == PortText(c.portAstartAddress, c.portAadd, c.portAisIo)
             portB == PortText(c.portBstartAddress, c.portBadd, c.portBisIo)
             src == IF c.transferDirectionPortAtoB THEN portA ELSE portB
             dst == IF c.transferDirectionPortAtoB THEN portB ELSE portA
         IN  [this |-> [c EXCEPT
                          !.blockCounterRR12 = c.blockLength,
                          !.statusByteRR0 = BitOr(26, t),
                          !.enabled = FALSE,
                          !.lastOperation =
                              OperationText("copy", c.blockLength, src, dst)],
              ret |-> tStates]
    ELSE [this |-> d, ret |-> 0]

\* copyContinuous leaving the controller enabled at the end of the block.
copyContinuous_StaysEnabled(d) ==
    IF d.zxnPrescalar = 0
    THEN LET c == CopyLoop(d)
             t == IF c.blockLength = 0 THEN 0 ELSE 1
             tStates == (portAtstates(c) + portBtstates(c)) * c.blockLength
             portA == PortText(c.portAstartAddress, c.portAadd, c.portAisIo)
             portB == PortText(c.portBstartAddress, c.portBadd, c.portBisIo)
             src == IF c.transferDirectionPortAtoB THEN portA ELSE portB
             dst == IF c.transferDirectionPortAtoB THEN portB ELSE portA
         IN  [this |-> [c EXCEPT
                          !.blockCounterRR12 = 0,
                          !.statusByteRR0 = BitOr(26, t),
                          !.lastOperation =
                              OperationText("copy", c.blockLength, src, dst)],
              ret |-> tStates]
    ELSE [this |-> d, ret |-> 0]

copyContinuous(d) ==
    IF d.zxnPrescalar = 0
    THEN LET c == CopyLoop(d)
             t == IF c.blockLength = 0 THEN 0 ELSE 1
             tStates == (portAtstates(c) + portBtstates(c)) * c.blockLength
             portA == PortText(c.portAstartAddress, c.portAadd, c.portAisIo)
             portB == PortText(c.portBstartAddress, c.portBadd, c.portBisIo)
             src == IF c.transferDirectionPortAtoB THEN portA ELSE portB
             dst == IF c.transferDirectionPortAtoB THEN portB ELSE portA
         IN  [this |-> [c EXCEPT
                          !.blockCounterRR12 = 0,
                          !.statusByteRR0 = BitOr(26, t),
                          !.enabled = FALSE,
                          !.lastOperation =
                              OperationText("copy", c.blockLength, src, dst)],
              ret |-> tStates]
    ELSE [this |-> d, ret |-> 0]

\* execute without the test of the enabled flag.
execute_IgnoresEnabled(d) ==
    LET e == [d EXCEPT !.lastOperation = OperationText("NOP", 0, << >>, << >>)]
    IN  IF e.burstMode THEN [this |-> e, ret |-> 0]
        ELSE copyContinuous(e)

\* execute taking burst mode for continuous mode.
execute_BurstAsContinuous(d) ==
    LET e == [d EXCEPT !.lastOperation = OperationText("NOP", 0, << >>, << >>)]
    IN  IF ~e.enabled THEN [this |-> e, ret |-> 0]
        ELSE copyContinuous(e)

execute(d) ==
    LET e == [d EXCEPT !.lastOperation = OperationText("NOP", 0, << >>, << >>)]
    IN  IF ~e.enabled THEN [this |-> e, ret |-> 0]
        ELSE IF e.burstMode THEN [this |-> e, ret |-> 0]
        ELSE copyContinuous(e)

(***************************************************************************)
(* Construction: the field initialisers, then the constructor's body.      *)
(***************************************************************************)
FieldInitialisers ==
    [ writePortFunc |-> "decodeWRGroup",
      nextDecodeBitMask |-> 0,
      transferDirectionPortAtoB |-> TRUE,
      portAstartAddress |-> 0,
      portBstartAddress |-> 0,
      blockLength |-> 0,
      portAisIo |-> FALSE,
      portBisIo |-> FALSE,
      portAadd |-> 0,
      portBadd |-> 0,
      portAcycleLength |-> 0,
      portBcycleLength |-> 0,
      zxnPrescalar |-> 0,
      burstMode |-> TRUE,
      autoRestart |-> FALSE,
      readMask |-> 127,
      lastReadSequenceBit |-> 0,
      enabled |-> FALSE,
      statusByteRR0 |-> 0,
      blockCounterRR12 |-> 0,
      portAaddressCounterRR34 |-> 0,
      portBaddressCounterRR56 |-> 0,
      lastOperation |-> OperationText("reset", 0, << >>, << >>),
      bl |-> 0,
      emitted |-> << >>,
      busReads |-> << >>,
      busWrites |-> << >> ]

\* The constructor without the call of initializeReadSequence.
constructor_PointerNotInitialised == reset(FieldInitialisers)

constructor == initializeReadSequence(reset(FieldInitialisers))

(***************************************************************************)
(* getState: the object for the simulator's web view.  Each call counts    *)
(* the field bl up and reports it as the block length.                     *)
(***************************************************************************)
getState(d) ==
    LET e == [d EXCEPT !.bl = @ + 1]
    IN  [this |-> e,
         ret |-> [ blockLength |-> e.bl,
                   portAstartAddress |-> e.portAstartAddress,
                   portBstartAddress |-> e.portBstartAddress,
                   transferDirectionPortAtoB |-> e.transferDirectionPortAtoB,
                   portAmode |-> IF e.portAisIo THEN "IO" ELSE "Memory",
                   portBmode |-> IF e.portBisIo THEN "IO" ELSE "Memory",
                   portAadd |-> e.portAadd,
                   portBadd |-> e.portBadd,
                   portAcycleLength |-> e.portAcycleLength,
                   portBcycleLength |-> e.portBcycleLength,
                   mode |-> IF e.burstMode THEN "Burst" ELSE "Continuous",
                   zxnPrescalar |-> e.zxnPrescalar,
                   eobAction |-> IF e.autoRestart THEN "Auto-Restart" ELSE "Stop",
                   readMask |-> BitAnd(e.readMask, 127),
                   lastReadSequenceBit |-> e.lastReadSequenceBit,
                   statusByteRR0 |-> e.statusByteRR0,
                   blockCounterRR12 |-> e.blockCounterRR12,
                   portAaddressCounterRR34 |-> e.portAaddressCounterRR34,
                   portBaddressCounterRR56 |-> e.portBaddressCounterRR56,
                   lastOperation |-> e.lastOperation ]]

(***************************************************************************)
(* MemBuffer (src/misc/membuffer.ts is not among the sources): a flat      *)
(* sequence of bytes written in order and read in the same order from a    *)
(* read offset; a boolean is 1 byte, a number a field of NumberWidth       *)
(* bytes, low byte first.  A read past the end of the data fails.          *)
(***************************************************************************)
NumberWidth == 8

NewMemBuffer == [data |-> << >>, readOffset |-> 0]

write8(b, v) == [b EXCEPT !.data = Append(@, v % 256)]

writeBoolean(b, v) == [b EXCEPT !.data = Append(@, IF v THEN 1 ELSE 0)]

\* The width bytes of v, low byte first.
RECURSIVE NumberBytes(_, _)
NumberBytes(v, width) ==
    IF width = 0 THEN << >>
    ELSE <<v % 256>> \o NumberBytes(v \div 256, width - 1)

writeNumber(b, v) == [b EXCEPT !.data = @ \o NumberBytes(v, NumberWidth)]

\* The reads give the value, the buffer afterwards and whether the read succeeded.
read8(b) ==
    IF b.readOffset + 1 > Len(b.data)
    THEN [ok |-> FALSE, value |-> 0, buf |-> b]
    ELSE [ok |-> TRUE, value |-> b.data[b.readOffset + 1],
          buf |-> [b EXCEPT !.readOffset = @ + 1]]

readBoolean(b) ==
    IF b.readOffset + 1 > Len(b.data)
    THEN [ok |-> FALSE, value |-> FALSE, buf |-> b]
    ELSE [ok |-> TRUE, value |-> (b.data[b.readOffset + 1] # 0),
          buf |-> [b EXCEPT !.readOffset = @ + 1]]

RECURSIVE NumberAt(_, _, _)
NumberAt(data, offset, width) ==
    IF width = 0 THEN 0
    ELSE data[offset + 1] + 256 * NumberAt(data, offset + 1, width - 1)

readNumber(b) ==
    IF b.readOffset + NumberWidth > Len(b.data)
    THEN [ok |-> FALSE, value |-> 0, buf |-> b]
    ELSE [ok |-> TRUE, value |-> NumberAt(b.data, b.readOffset, NumberWidth),
          buf |-> [b EXCEPT !.readOffset = @ + NumberWidth]]

(***************************************************************************)
(* ZxnDma: the snapshot.                                                   *)
(***************************************************************************)
getSerializedSize(d) == 0

\* Gives the buffer afterwards: nothing is written.
serialize(d, b) == b

\* Gives the object afterwards: nothing is read.
deserialize(d, b) == [this |-> d, ok |-> TRUE]

(***************************************************************************)
(* Zx81UlaScreen, the bus-accurate video timing generator                  *)
(* (src/src/remotes/zsimulator/zx81ulascreen.ts, the class that extends    *)
(* UlaScreen).  Every method is an operator on the record of the fields;   *)
(* the record carries along what the call does to its surroundings: the    *)
(* interrupts raised on the CPU (TRUE for an NMI) and the number of        *)
(* 'updateScreen' events emitted.                                          *)
(***************************************************************************)
TSTATES_PER_SCANLINE == 207

TSTATES_PER_SCREEN == 65000

TSTATES_OF_HSYNC_LOW == 16

VSYNC_MINIMAL_TSTATES == 500

\* borderColor is a field of the base class UlaScreen (not among the sources).
Zx81UlaScreen_FieldInitialisers(border) ==
    [ prevRregister |-> 0,
      stateNmiGeneratorOn |-> FALSE,
      ulaLineCounter |-> 0,
      lineCounter |-> 0,
      tstates |-> 0,
      vsyncStartTstates |-> 0,
      hsyncTstatesCounter |-> 0,
      int38InNextCycle |-> FALSE,
      hsync |-> FALSE,
      vsync |-> FALSE,
      noDisplay |-> FALSE,
      borderColor |-> border,
      chroma81Mode |-> 0,
      chroma81Enabled |-> FALSE,
      interrupts |-> << >>,
      updateScreen |-> 0 ]

\* The constructor's body registers the port and memory functions only.
Zx81UlaScreen_constructor(border) == Zx81UlaScreen_FieldInitialisers(border)

\* this.z80Cpu.interrupt(nmi, 0)
interrupt(u, nmi) == [u EXCEPT !.interrupts = Append(@, nmi)]

\* this.emit('updateScreen')
emitUpdateScreen(u) == [u EXCEPT !.updateScreen = @ + 1]

resetVideoBuffer(u) == u

\* generateVsync taking a vertical sync as genuine only above the minimal time.
generateVsync_AboveMinimum(u, on) ==
    IF u.vsync = on THEN u
    ELSE IF on
    THEN IF ~u.stateNmiGeneratorOn
         THEN [u EXCEPT !.vsyncStartTstates = u.tstates, !.vsync = on]
         ELSE u
    ELSE LET lengthOfVsync == u.tstates - u.vsyncStartTstates
             v == IF lengthOfVsync > VSYNC_MINIMAL_TSTATES
                  THEN resetVideoBuffer(emitUpdateScreen(
                           [u EXCEPT !.noDisplay = FALSE, !.lineCounter = 0]))
                  ELSE u
         IN  [v EXCEPT !.vsync = on, !.ulaLineCounter = 0, !.hsyncTstatesCounter = 0]

\* generateVsync resetting the sub-line counter on a genuine vertical sync only.
generateVsync_ShortKeepsSubLine(u, on) ==
    IF u.vsync = on THEN u
    ELSE IF on
    THEN IF ~u.stateNmiGeneratorOn
         THEN [u EXCEPT !.vsyncStartTstates = u.tstates, !.vsync = on]
         ELSE u
    ELSE LET lengthOfVsync == u.tstates - u.vsyncStartTstates
         IN  IF lengthOfVsync >= VSYNC_MINIMAL_TSTATES
             THEN [resetVideoBuffer(emitUpdateScreen(
                       [u EXCEPT !.noDisplay = FALSE, !.lineCounter = 0]))
                     EXCEPT !.vsync = on, !.ulaLineCounter = 0, !.hsyncTstatesCounter = 0]
             ELSE [u EXCEPT !.vsync = on, !.hsyncTstatesCounter = 0]

generateVsync(u, on) ==
    IF u.vsync = on THEN u
    ELSE IF on
    THEN IF ~u.stateNmiGeneratorOn
         THEN [u EXCEPT !.vsyncStartTstates = u.tstates, !.vsync = on]
         ELSE u
    ELSE LET lengthOfVsync == u.tstates - u.vsyncStartTstates
             v == IF lengthOfVsync >= VSYNC_MINIMAL_TSTATES
                  THEN resetVideoBuffer(emitUpdateScreen(
                           [u EXCEPT !.noDisplay = FALSE, !.lineCounter = 0]))
                  ELSE u
         IN  [v EXCEPT !.vsync = on, !.ulaLineCounter = 0, !.hsyncTstatesCounter = 0]

\* outPorts comparing the whole port address with 0xFD and 0xFE.
outPorts_ExactPorts(u, port) ==
    LET v == IF port = 253 THEN [u EXCEPT !.stateNmiGeneratorOn = FALSE]
             ELSE IF port = 254 THEN [u EXCEPT !.stateNmiGeneratorOn = TRUE]
             ELSE u
    IN  generateVsync(v, FALSE)

outPorts(u, port) ==
    LET v == IF BitAnd(port, 3) = 1 THEN [u EXCEPT !.stateNmiGeneratorOn = FALSE]
             ELSE IF BitAnd(port, 3) = 2 THEN [u EXCEPT !.stateNmiGeneratorOn = TRUE]
             ELSE u
    IN  generateVsync(v, FALSE)

\* inPort without the test of address line A0.
inPort_AnyPort(u, port) == generateVsync(u, TRUE)

inPort(u, port) ==
    IF BitAnd(port, 1) = 0 THEN generateVsync(u, TRUE) ELSE u

\* checkHsync starting the next line at 0 when HSYNC returns high.
checkHsync_ExitClearsCounter(u, addTstates) ==
    LET v == [u EXCEPT !.hsyncTstatesCounter = @ + addTstates]
    IN  IF v.hsync
        THEN IF v.hsyncTstatesCounter < TSTATES_PER_SCANLINE
             THEN [this |-> v, ret |-> FALSE]
             ELSE [this |-> [v EXCEPT !.hsyncTstatesCounter = 0,
                                      !.hsync = FALSE],
                   ret |-> FALSE]
        ELSE IF v.hsyncTstatesCounter < TSTATES_PER_SCANLINE - TSTATES_OF_HSYNC_LOW
        THEN [this |-> v, ret |-> FALSE]
        ELSE LET w == [v EXCEPT !.ulaLineCounter = BitAnd(@ + 1, 7),
                                !.lineCounter = @ + 1]
                 x == IF w.stateNmiGeneratorOn THEN interrupt(w, TRUE) ELSE w
             IN  [this |-> [x EXCEPT !.hsync = TRUE], ret |-> TRUE]

\* checkHsync counting the line when HSYNC goes off (high) instead of on (low).
checkHsync_CountsOnSyncHigh(u, addTstates) ==
    LET v == [u EXCEPT !.hsyncTstatesCounter = @ + addTstates]
    IN  IF v.hsync
        THEN IF v.hsyncTstatesCounter < TSTATES_PER_SCANLINE
             THEN [this |-> v, ret |-> FALSE]
             ELSE LET w == [v EXCEPT !.ulaLineCounter = BitAnd(@ + 1, 7),
                                     !.lineCounter = @ + 1]
                      x == IF w.stateNmiGeneratorOn THEN interrupt(w, TRUE) ELSE w
                  IN  [this |-> [x EXCEPT !.hsyncTstatesCounter = @ - TSTATES_PER_SCANLINE,
                                          !.hsync = FALSE],
                       ret |-> TRUE]
        ELSE IF v.hsyncTstatesCounter < TSTATES_PER_SCANLINE - TSTATES_OF_HSYNC_LOW
        THEN [this |-> v, ret |-> FALSE]
        ELSE [this |-> [v EXCEPT !.hsync = TRUE], ret |-> FALSE]

\* Gives the object afterwards and the returned flag.
checkHsync(u, addTstates) ==
    LET v == [u EXCEPT !.hsyncTstatesCounter = @ + addTstates]
    IN  IF v.hsync
        THEN IF v.hsyncTstatesCounter < TSTATES_PER_SCANLINE
             THEN [this |-> v, ret |-> FALSE]
             ELSE [this |-> [v EXCEPT !.hsyncTstatesCounter = @ - TSTATES_PER_SCANLINE,
                                      !.hsync = FALSE],
                   ret |-> FALSE]
        ELSE IF v.hsyncTstatesCounter < TSTATES_PER_SCANLINE - TSTATES_OF_HSYNC_LOW
        THEN [this |-> v, ret |-> FALSE]
        ELSE LET w == [v EXCEPT !.ulaLineCounter = BitAnd(@ + 1, 7),
                                !.lineCounter = @ + 1]
                 x == IF w.stateNmiGeneratorOn THEN interrupt(w, TRUE) ELSE w
             IN  [this |-> [x EXCEPT !.hsync = TRUE], ret |-> TRUE]

\* execute raising the maskable interrupt in the call that sees bit 6 fall.
Zx81UlaScreen_execute_NoLatency(u, r, currentTstates) ==
    LET a == [u EXCEPT !.tstates = @ + currentTstates]
        c == IF BitAnd(r, 64) = 0 /\ BitAnd(a.prevRregister, 64) # 0
             THEN interrupt(a, FALSE)
             ELSE a
        e == checkHsync([c EXCEPT !.prevRregister = r], currentTstates).this
    IN  IF e.tstates > e.vsyncStartTstates + 2 * TSTATES_PER_SCREEN /\ ~e.noDisplay
        THEN emitUpdateScreen([e EXCEPT !.noDisplay = TRUE])
        ELSE e

\* r is the value of this.z80Cpu.r at the call.
Zx81UlaScreen_execute(u, r, currentTstates) ==
    LET a == [u EXCEPT !.tstates = @ + currentTstates]
        b == IF a.int38InNextCycle
             THEN interrupt([a EXCEPT !.int38InNextCycle = FALSE], FALSE)
             ELSE a
        c == IF BitAnd(r, 64) = 0 /\ BitAnd(b.prevRregister, 64) # 0
             THEN [b EXCEPT !.int38InNextCycle = TRUE]
             ELSE b
        e == checkHsync([c EXCEPT !.prevRregister = r], currentTstates).this
    IN  IF e.tstates > e.vsyncStartTstates + 2 * TSTATES_PER_SCREEN /\ ~e.noDisplay
        THEN emitUpdateScreen([e EXCEPT !.noDisplay = TRUE])
        ELSE e

chroma81OutPort(u, port, value) ==
    [u EXCEPT !.borderColor = BitAnd(value, 15),
              !.chroma81Mode = BitAnd(value, 16) \div 16,
              !.chroma81Enabled = (BitAnd(value, 32) # 0)]

chroma81InPort(u, port) == 223

\* The fields serialize writes, in its order, each with the MemBuffer call used.
SerializedFields ==
    << <<"prevRregister", "8">>, <<"stateNmiGeneratorOn", "boolean">>,
       <<"ulaLineCounter", "number">>, <<"tstates", "number">>,
       <<"vsyncStartTstates", "number">>, <<"hsyncTstatesCounter", "number">>,
       <<"int38InNextCycle", "boolean">>, <<"hsync", "boolean">>,
       <<"vsync", "boolean">>, <<"noDisplay", "boolean">>,
       <<"borderColor", "8">>, <<"chroma81Mode", "8">>,
       <<"chroma81Enabled", "boolean">> >>

\* The fields deserialize reads, in its order, each with the MemBuffer call used.
DeserializedFields ==
    << <<"prevRregister", "8">>, <<"stateNmiGeneratorOn", "boolean">>,
       <<"ulaLineCounter", "number">>, <<"tstates", "number">>,
       <<"vsyncStartTstates", "number">>, <<"hsyncTstatesCounter", "number">>,
       <<"int38InNextCycle", "boolean">>, <<"hsync", "boolean">>,
       <<"vsync", "boolean">>, <<"noDisplay", "boolean">>,
       <<"borderColor", "8">>, <<"chroma81Mode", "8">>,
       <<"chroma81Enabled", "boolean">> >>

WriteField(b, kind, v) ==
    CASE kind = "8" -> write8(b, v)
      [] kind = "boolean" -> writeBoolean(b, v)
      [] kind = "number" -> writeNumber(b, v)

ReadField(b, kind) ==
    CASE kind = "8" -> read8(b)
      [] kind = "boolean" -> readBoolean(b)
      [] kind = "number" -> readNumber(b)

RECURSIVE SerializeFrom(_, _, _)
SerializeFrom(u, b, i) ==
    IF i > Len(SerializedFields) THEN b
    ELSE SerializeFrom(u,
                       WriteField(b, SerializedFields[i][2], u[SerializedFields[i][1]]),
                       i + 1)

\* Gives the buffer afterwards.
Zx81UlaScreen_serialize(u, b) == SerializeFrom(u, b, 1)

\* Each field is assigned as soon as it is read; a read that fails ends the
\* call (the exception leaves deserialize) with the fields assigned so far.
RECURSIVE DeserializeFrom(_, _, _)
DeserializeFrom(u, b, i) ==
    IF i > Len(DeserializedFields) THEN [this |-> u, ok |-> TRUE]
    ELSE LET r == ReadField(b, DeserializedFields[i][2])
         IN  IF ~r.ok THEN [this |-> u, ok |-> FALSE]
             ELSE DeserializeFrom([u EXCEPT ![DeserializedFields[i][1]] = r.value],
                                  r.buf, i + 1)

\* Gives the object afterwards and whether the call returned normally.
Zx81UlaScreen_deserialize(u, b) == DeserializeFrom(u, b, 1)

(***************************************************************************)
(* DisassemblyClass (src/src/disassembly/disassembly.ts).  The field slots *)
(* is << >> while undefined and <<s>> when it holds the array s.  A Map is *)
(* the sequence of its <<key, value>> entries in insertion order, a Set    *)
(* the sequence of its elements in insertion order.  Of the 64k memory the *)
(* model keeps the bytes at MemBase .. MemBase + MemSize - 1, as a         *)
(* sequence, and of the attributes the set of addresses marked CODE_FIRST. *)
(***************************************************************************)
Undefined == << >>

MemBase == 32768

MemSize == 3

\* SmartDisassembler declares the fields slots, memory, addrLineMap and
\* lineAddrArray and setCurrentSlots (not among the sources): slots starts
\* undefined, the memory zeroed and without attributes, the maps empty;
\* setCurrentSlots stores the array.
SmartDisassembler_constructor ==
    [ slots |-> Undefined,
      memory |-> [i \in 1 .. MemSize |-> 0],
      codeFirst |-> {},
      addrLineMap |-> << >>,
      lineAddrArray |-> << >> ]

DisassemblyClass_constructor ==
    [ slots |-> SmartDisassembler_constructor.slots,
      memory |-> SmartDisassembler_constructor.memory,
      codeFirst |-> SmartDisassembler_constructor.codeFirst,
      addrLineMap |-> SmartDisassembler_constructor.addrLineMap,
      lineAddrArray |-> SmartDisassembler_constructor.lineAddrArray,
      longPcAddressesHistory |-> << >>,
      longCallStackAddresses |-> << >>,
      disassemblyText |-> << >> ]

setCurrentSlots(d, slots) == [d EXCEPT !.slots = <<slots>>]

\* Map.has, Map.get (of a key the map has) and Map.set.
MapHas(map, key) == \E i \in DOMAIN map : map[i][1] = key

MapGet(map, key) == map[CHOOSE i \in DOMAIN map : map[i][1] = key][2]

MapSet(map, key, value) ==
    IF MapHas(map, key)
    THEN [i \in DOMAIN map |-> IF map[i][1] = key THEN <<key, value>> ELSE map[i]]
    ELSE Append(map, <<key, value>>)

Elements(s) == {s[i] : i \in DOMAIN s}

\* The loop over the addresses takes a line if it is truthy: defined and not 0.
getLinesForAddresses(d, addresses) ==
    LET map == d.addrLineMap
    IN  IF Len(addresses) > Len(map)
        THEN LET hits == SelectSeq(map, LAMBDA e : e[1] \in Elements(addresses))
             IN  [i \in DOMAIN hits |-> hits[i][2]]
        ELSE LET hits == SelectSeq(addresses,
                                   LAMBDA a : MapHas(map, a) /\ MapGet(map, a) # 0)
             IN  [i \in DOMAIN hits |-> MapGet(map, hits[i])]

\* Remote.readMemoryDump(0, 0x10000), clearAttributes and setMemory.
fetch64kMemory(d, remote) == [d EXCEPT !.memory = remote, !.codeFirst = {}]

getValueAt(memory, addr64k) == memory[addr64k - MemBase + 1]

\* slotsChanged comparing the elements whatever their order.
slotsChanged_AnyOrder(d, slots) ==
    IF d.slots = Undefined THEN TRUE
    ELSE LET this_slots == d.slots[1]
             len == Len(this_slots)
         IN  IF len # Len(slots) THEN TRUE
             ELSE {this_slots[i] : i \in 1 .. len} # {slots[i] : i \in 1 .. len}

slotsChanged(d, slots) ==
    IF d.slots = Undefined THEN TRUE
    ELSE LET this_slots == d.slots[1]
             len == Len(this_slots)
         IN  IF len # Len(slots) THEN TRUE
             ELSE \E i \in 1 .. len : this_slots[i] # slots[i]

prepareRefresh(d) == [d EXCEPT !.longCallStackAddresses = << >>, !.slots = << << >> >>]

\* Z80Registers.createLongAddress (not among the sources): the 64k address
\* with the bank of its slot, plus one, above bit 15; one slot spans the 64k.
\* Without a bank for the slot the long address is the 64k address.
createLongAddress(addr64k, slots) ==
    IF Len(slots) >= 1 THEN addr64k + 65536 * (slots[1] + 1) ELSE addr64k

getOnlyPagedInAddresses(d, src) ==
    LET pagedIn == SelectSeq(src, LAMBDA longAddr :
                       longAddr = createLongAddress(longAddr % 65536, d.slots[1]))
    IN  [i \in DOMAIN pagedIn |-> pagedIn[i] % 65536]

\* The callback given to RenderText: line lineNr starts at addr64k and has
\* bytesCount bytes.
RECURSIVE PushWhileShort(_, _, _)
PushWhileShort(lineAddrArray, lineNr, longAddr) ==
    IF Len(lineAddrArray) <= lineNr
    THEN PushWhileShort(Append(lineAddrArray, longAddr), lineNr, longAddr)
    ELSE lineAddrArray

RECURSIVE SetBytes(_, _, _, _, _)
SetBytes(map, slots, addr64k, lineNr, count) ==
    IF count = 0 \/ addr64k > 65535 THEN map
    ELSE SetBytes(MapSet(map, createLongAddress(addr64k, slots), lineNr),
                  slots, addr64k + 1, lineNr, count - 1)

renderCallback(d, lineNr, addr64k, bytesCount) ==
    [d EXCEPT
        !.lineAddrArray = PushWhileShort(@, lineNr, createLongAddress(addr64k, d.slots[1])),
        !.addrLineMap = SetBytes(@, d.slots[1], addr64k, lineNr, bytesCount)]

\* getFlowGraph, disassembleNodes and RenderText.renderSync (not among the
\* sources): the start addresses become first bytes of code; the text has
\* one line for each, in ascending order, with the opcode read from the
\* memory; the opcode 0x3E has two bytes, every other one; each line is
\* reported through the callback.
RECURSIVE Ascending(_)
Ascending(S) ==
    IF S = {} THEN << >>
    ELSE LET least == CHOOSE x \in S : \A y \in S : x <= y
         IN  <<least>> \o Ascending(S \ {least})

BytesCount(opcode) == IF opcode = 62 THEN 2 ELSE 1

RECURSIVE RenderLines(_, _, _)
RenderLines(d, starts, lineNr) ==
    IF lineNr >= Len(starts) THEN d
    ELSE RenderLines(renderCallback(d, lineNr, starts[lineNr + 1],
                                    BytesCount(getValueAt(d.memory, starts[lineNr + 1]))),
                     starts, lineNr + 1)

disassemble(d, addrs64k) ==
    LET starts == Ascending(Elements(addrs64k))
        marked == [d EXCEPT !.codeFirst = @ \cup Elements(addrs64k)]
    IN  [RenderLines(marked, starts, 0) EXCEPT
            !.disassemblyText =
                [i \in DOMAIN starts |-> <<starts[i], getValueAt(d.memory, starts[i])>>]]

\* The call stack addresses (all but the first) that are no first byte of code.
RECURSIVE UnknownCallers(_, _, _)
UnknownCallers(codeFirst, longCallStackAddresses, i) ==
    IF i > Len(longCallStackAddresses) THEN << >>
    ELSE (IF longCallStackAddresses[i] % 65536 \in codeFirst
          THEN << >> ELSE <<longCallStackAddresses[i]>>)
         \o UnknownCallers(codeFirst, longCallStackAddresses, i + 1)

\* setNewAddresses fetching the memory whenever it is called.
setNewAddresses_AlwaysFetches(d, longCallStackAddresses, slots, remote) ==
    LET len == Len(longCallStackAddresses)
        pcDefined == len > 0
        pcAddr64k == longCallStackAddresses[1] % 65536
        fetched == fetch64kMemory(setCurrentSlots(d, slots), remote)
        pcUnknown == pcDefined /\ pcAddr64k \notin fetched.codeFirst
        withPc == IF pcUnknown
                  THEN [fetched EXCEPT !.longPcAddressesHistory =
                                           Append(@, longCallStackAddresses[1])]
                  ELSE fetched
        callers == UnknownCallers(withPc.codeFirst, longCallStackAddresses, 2)
        withCallers == [withPc EXCEPT !.longCallStackAddresses = @ \o callers]
        addrs64k == getOnlyPagedInAddresses(withCallers, withCallers.longPcAddressesHistory)
                    \o getOnlyPagedInAddresses(withCallers, withCallers.longCallStackAddresses)
    IN  [this |-> disassemble(withCallers, addrs64k), ret |-> TRUE,
         disassembled |-> TRUE,
         reads |-> << <<0, 65536>> >>]

\* Gives the object afterwards, the returned flag, whether the disassembly
\* was done, and the calls of Remote.readMemoryDump as <<address, size>>.
\* slots is what Z80Registers.getSlots() returns, remote the memory of the
\* Remote.
setNewAddresses(d, longCallStackAddresses, slots, remote) ==
    LET len == Len(longCallStackAddresses)
        pcDefined == len > 0
        pcAddr64k == longCallStackAddresses[1] % 65536
        changed == slotsChanged(d, slots)
        pcRead == ~changed /\ pcDefined
        pcDiffers == pcRead /\ getValueAt(remote, pcAddr64k) # getValueAt(d.memory, pcAddr64k)
        fetch == changed \/ pcDiffers
        fetched == IF changed THEN fetch64kMemory(setCurrentSlots(d, slots), remote)
                   ELSE IF pcDiffers THEN fetch64kMemory(d, remote)
                   ELSE d
        pcUnknown == pcDefined /\ pcAddr64k \notin fetched.codeFirst
        withPc == IF pcUnknown
                  THEN [fetched EXCEPT !.longPcAddressesHistory =
                                           Append(@, longCallStackAddresses[1])]
                  ELSE fetched
        callers == UnknownCallers(withPc.codeFirst, longCallStackAddresses, 2)
        withCallers == [withPc EXCEPT !.longCallStackAddresses = @ \o callers]
        disasmRequired == fetch \/ pcUnknown \/ callers # << >>
        addrs64k == getOnlyPagedInAddresses(withCallers, withCallers.longPcAddressesHistory)
                    \o getOnlyPagedInAddresses(withCallers, withCallers.longCallStackAddresses)
    IN  [this |-> IF disasmRequired THEN disassemble(withCallers, addrs64k) ELSE withCallers,
         ret |-> disasmRequired,
         disassembled |-> disasmRequired,
         reads |-> (IF pcRead THEN << <<pcAddr64k, 1>> >> ELSE << >>)
                   \o (IF fetch THEN << <<0, 65536>> >> ELSE << >>)]

(***************************************************************************)
(* CustomCode (src/src/remotes/zsimulator/customcode.ts).  A handler of    *)
(* the user script is given by what it does when called: it returns a      *)
(* value (<< >> for undefined) or throws an Error with a message.  A call  *)
(* of CustomCode ends the same two ways.                                   *)
(***************************************************************************)
Returns(value) == [kind |-> "return", value |-> value, message |-> ""]

Throws(message) == [kind |-> "throw", value |-> Undefined, message |-> message]

\* The optional handlers of a new CustomCodeAPI are undefined (FALSE: not
\* installed); readPort and writePort always have a function.
CustomCodeAPI_FieldInitialisers == [receivedFromCustomUi |-> FALSE, tick |-> FALSE]

throwError(errorMessage) == Throws(errorMessage)

\* readPort catching the error of the handler without raising one.
CustomCode_readPort_Swallows(api, handler) ==
    IF handler.kind = "throw" THEN Returns(Undefined)
    ELSE Returns(handler.value)

\* handler: what this.api.readPort(port) does.
CustomCode_readPort(api, handler) ==
    IF handler.kind = "throw"
    THEN throwError("Error during executing custom java script in 'readPort': "
                    \o handler.message)
    ELSE Returns(handler.value)

CustomCode_writePort(api, handler) ==
    IF handler.kind = "throw"
    THEN throwError("Error during executing custom java script in 'writePort': "
                    \o handler.message)
    ELSE Returns(Undefined)

CustomCode_receivedFromCustomUi(api, handler) ==
    IF ~api.receivedFromCustomUi THEN Returns(Undefined)
    ELSE IF handler.kind = "throw"
    THEN throwError("Error during executing custom java script in 'API.receivedFromCustomUi': "
                    \o handler.message)
    ELSE Returns(Undefined)

CustomCode_tick(api, handler) ==
    IF ~api.tick THEN Returns(Undefined)
    ELSE IF handler.kind = "throw"
    THEN throwError("Error during executing custom java script in 'tick': "
                    \o handler.message)
    ELSE Returns(Undefined)

(***************************************************************************)
(* The bus interception of the two video generators of zx81ulascreen.ts:   *)
(* Zx81UlaScreen implements Serializable (the first class of the file)     *)
(* replaces memory.read8 by ulaRead8; Zx81UlaScreen extends UlaScreen      *)
(* replaces memory.m1Read8, the opcode fetch, by ulaM1Read8 and leaves     *)
(* memory.read8 alone.  mem is the memory, a function of the address.      *)
(***************************************************************************)
\* SimulatedMemory.read8 (not among the sources): the byte at the address.
memoryRead8(mem, addr64k) == mem[addr64k]

ulaRead8(mem, addr64k) ==
    LET data == memoryRead8(mem, addr64k)
    IN  IF BitAnd(addr64k, 32768) # 0 /\ BitAnd(data, 64) = 0 THEN 0 ELSE data

ulaM1Read8(mem, addr64k) ==
    LET data == memoryRead8(mem, BitAnd(addr64k, 32767))
    IN  IF BitAnd(addr64k, 32768) # 0 /\ BitAnd(data, 64) = 0 THEN 0 ELSE data

(***************************************************************************)
(* The caller's calls.                                                     *)
(***************************************************************************)
Call(op, value) == [op |-> op, value |-> value]

Wr(bytes) == {Call("write", b) : b \in bytes}

Rd == {Call("read", 0)}

Ex == {Call("execute", 0)}

\* n times the same set of calls.
Times(n, calls) == [i \in 1 .. n |-> calls]

\* The number of interrupts of the kind nmi the call has raised on the CPU.
Raised(u, nmi) == Cardinality({i \in DOMAIN u.interrupts : u.interrupts[i] = nmi})

\* The caller's record of the executes: of each of the last three the
\* R register it was called with and the maskable interrupts it raised.
LastExecutes(h) == IF Len(h) > 3 THEN Tail(h) ELSE h

\* An OUT on u ends a vertical sync that was low for the minimal time or more.
EndsGenuineVsync(u) == u.vsync /\ u.tstates - u.vsyncStartTstates >= VSYNC_MINIMAL_TSTATES

\* The call that led from u to v has ended a vertical sync, which resets the
\* hsync counter.
EndsVsync(u, v) == u.vsync /\ ~v.vsync

\* The caller's record of a generator just constructed: no execute yet, the
\* t-states at the end of its last genuine vertical sync (0: none yet), and,
\* since the hsync counter was last reset, the sum of the cycle counts passed
\* to execute and the number of executes in which HSYNC returned high.
NoUlaHistory == [executes |-> << >>, genuine |-> 0, cycles |-> 0, exits |-> 0]

\* The caller's record before the first setNewAddresses: no slots reported yet.
NoAddressesYet == [slots |-> Undefined]

NoSelection ==
    [first |-> -1, reg |-> -1, mask0 |-> 0, params |-> << >>, pre |-> constructor]

\* The register the last write was decoded as, from the emitted log; -1 if
\* the byte was not decoded as the first byte of a register.
DecodedAs(log) ==
    IF \E i \in DOMAIN log : log[i][1] = "decoded as WR"
    THEN log[CHOOSE i \in DOMAIN log : log[i][1] = "decoded as WR"][2]
    ELSE -1

StartAs(d) ==
    /\ writePortFunc = d.writePortFunc
    /\ nextDecodeBitMask = d.nextDecodeBitMask
    /\ transferDirectionPortAtoB = d.transferDirectionPortAtoB
    /\ portAstartAddress = d.portAstartAddress
    /\ portBstartAddress = d.portBstartAddress
    /\ blockLength = d.blockLength
    /\ portAisIo = d.portAisIo
    /\ portBisIo = d.portBisIo
    /\ portAadd = d.portAadd
    /\ portBadd = d.portBadd
    /\ portAcycleLength = d.portAcycleLength
    /\ portBcycleLength = d.portBcycleLength
    /\ zxnPrescalar = d.zxnPrescalar
    /\ burstMode = d.burstMode
    /\ autoRestart = d.autoRestart
    /\ readMask = d.readMask
    /\ lastReadSequenceBit = d.lastReadSequenceBit
    /\ enabled = d.enabled
    /\ statusByteRR0 = d.statusByteRR0
    /\ blockCounterRR12 = d.blockCounterRR12
    /\ portAaddressCounterRR34 = d.portAaddressCounterRR34
    /\ portBaddressCounterRR56 = d.portBaddressCounterRR56
    /\ lastOperation = d.lastOperation
    /\ bl = d.bl
    /\ emitted = d.emitted
    /\ busReads = d.busReads
    /\ busWrites = d.busWrites

\* The DMA controller and the video timing generator after construction, the
\* caller with one of the programs; borders are the border colours a new
\* generator may have.
InitBoth(programs, borders) ==
    /\ StartAs(constructor)
    /\ prog \in programs
    /\ lastCall = [op |-> "new", value |-> 0, ret |-> 0]
    /\ sel = NoSelection
    /\ readHist = << >>
    /\ ula \in {Zx81UlaScreen_constructor(border) : border \in borders}
    /\ memBuffer = NewMemBuffer
    /\ saved = << >>
    /\ ulaHist = NoUlaHistory
    /\ dis = DisassemblyClass_constructor
    /\ disHist = NoAddressesYet
    /\ customApi = CustomCodeAPI_FieldInitialisers

\* The specifications of the DMA controller alone.
InitWith(programs) == InitBoth(programs, {0})

(***************************************************************************)
(* The actions: the three public entry points.                             *)
(***************************************************************************)
WritePort(value) ==
    /\ prog # << >>
    /\ Call("write", value) \in Head(prog)
    /\ prog' = Tail(prog)
    /\ \E d \in {writePort(This, value)} :
           /\ SetThis(d)
           /\ sel' = IF writePortFunc = "decodeWRGroup"
                     THEN [first |-> value,
                           reg |-> DecodedAs(d.emitted),
                           mask0 |-> d.nextDecodeBitMask,
                           params |-> << >>,
                           pre |-> This]
                     ELSE [sel EXCEPT !.params = Append(@, value)]
    /\ lastCall' = [op |-> "write", value |-> value, ret |-> 0]
    /\ readHist' = << >>
    /\ UNCHANGED <<ula, memBuffer, saved, ulaHist, dis, disHist, customApi>>

ReadPort ==
    /\ prog # << >>
    /\ Call("read", 0) \in Head(prog)
    /\ prog' = Tail(prog)
    /\ \E r \in {readPort(This)} :
           /\ SetThis(r.this)
           /\ lastCall' = [op |-> "read", value |-> 0, ret |-> r.ret]
           /\ readHist' = Append(readHist,
                                 [bit |-> r.this.lastReadSequenceBit, ret |-> r.ret])
    /\ UNCHANGED <<sel, ula, memBuffer, saved, ulaHist, dis, disHist, customApi>>

Execute ==
    /\ prog # << >>
    /\ Call("execute", 0) \in Head(prog)
    /\ prog' = Tail(prog)
    /\ \E r \in {execute(This)} :
           /\ SetThis(r.this)
           /\ lastCall' = [op |-> "execute", value |-> 0, ret |-> r.ret]
    /\ readHist' = << >>
    /\ UNCHANGED <<sel, ula, memBuffer, saved, ulaHist, dis, disHist, customApi>>

GetState ==
    /\ prog # << >>
    /\ Call("getState", 0) \in Head(prog)
    /\ prog' = Tail(prog)
    /\ \E r \in {getState(This)} :
           /\ SetThis(r.this)
           /\ lastCall' = [op |-> "getState", value |-> 0, ret |-> r.ret]
    /\ UNCHANGED <<sel, readHist, ula, memBuffer, saved, ulaHist, dis, disHist, customApi>>

(***************************************************************************)
(* The snapshot of the DMA controller: serialize into a new buffer, the    *)
(* construction of another controller, deserialize from the first n bytes  *)
(* of the buffer.  A call that ends by an exception returns -1 here.       *)
(***************************************************************************)
DmaFrame == <<ula, sel, readHist, ulaHist, dis, disHist, customApi>>

Serialize ==
    /\ prog # << >>
    /\ Call("serialize", 0) \in Head(prog)
    /\ prog' = Tail(prog)
    /\ memBuffer' = serialize(This, NewMemBuffer)
    /\ saved' = This
    /\ lastCall' = [op |-> "serialize", value |-> 0, ret |-> getSerializedSize(This)]
    /\ UNCHANGED <<dmaVars, emitted, busReads, busWrites, DmaFrame>>

NewZxnDma ==
    /\ prog # << >>
    /\ Call("new", 0) \in Head(prog)
    /\ prog' = Tail(prog)
    /\ SetThis([constructor EXCEPT !.busReads = busReads, !.busWrites = busWrites])
    /\ sel' = NoSelection
    /\ readHist' = << >>
    /\ lastCall' = [op |-> "new", value |-> 0, ret |-> 0]
    /\ UNCHANGED <<ula, memBuffer, saved, ulaHist, dis, disHist, customApi>>

Deserialize(n) ==
    /\ prog # << >>
    /\ Call("deserialize", n) \in Head(prog)
    /\ n <= Len(memBuffer.data)
    /\ prog' = Tail(prog)
    /\ \E r \in {deserialize(This, [data |-> SubSeq(memBuffer.data, 1, n), readOffset |-> 0])} :
           /\ SetThis(r.this)
           /\ lastCall' = [op |-> "deserialize", value |-> n,
                           ret |-> IF r.ok THEN 0 ELSE -1]
    /\ UNCHANGED <<DmaFrame, memBuffer, saved>>

(***************************************************************************)
(* The calls to the video timing generator: execute with the CPU's         *)
(* R register and the elapsed t-states, an OUT and an IN on a port, an OUT *)
(* on the Chroma81 port 0x7FEF, and the snapshot.  The argument of such a  *)
(* call is the tuple of its arguments.                                     *)
(***************************************************************************)
\* The object at the start of a call: nothing raised or emitted yet.
Quiet(u) == [u EXCEPT !.interrupts = << >>, !.updateScreen = 0]

\* The border colours of a generator just constructed (UlaScreen sets it).
NewBorderColors == {0, 7}

UlaFrame == <<dmaVars, emitted, busReads, busWrites, sel, readHist, dis, disHist, customApi>>

UlaExecute(r, currentTstates) ==
    /\ prog # << >>
    /\ Call("ula execute", <<r, currentTstates>>) \in Head(prog)
    /\ prog' = Tail(prog)
    /\ ula' = Zx81UlaScreen_execute(Quiet(ula), r, currentTstates)
    /\ lastCall' = [op |-> "ula execute", value |-> <<r, currentTstates>>, ret |-> 0]
    /\ ulaHist' = [ulaHist EXCEPT
                      !.executes =
                          LastExecutes(Append(@, [r |-> r, int38 |-> Raised(ula', FALSE)])),
                      !.cycles = @ + currentTstates,
                      !.exits = IF ula.hsync /\ ~ula'.hsync THEN @ + 1 ELSE @]
    /\ UNCHANGED <<UlaFrame, memBuffer, saved>>

OutPorts(port) ==
    /\ prog # << >>
    /\ Call("out", <<port>>) \in Head(prog)
    /\ prog' = Tail(prog)
    /\ ula' = outPorts(Quiet(ula), port)
    /\ lastCall' = [op |-> "out", value |-> port, ret |-> 0]
    /\ ulaHist' = [ulaHist EXCEPT
                      !.genuine = IF EndsGenuineVsync(ula) THEN ula.tstates ELSE @,
                      !.cycles = IF EndsVsync(ula, ula') THEN 0 ELSE @,
                      !.exits = IF EndsVsync(ula, ula') THEN 0 ELSE @]
    /\ UNCHANGED <<UlaFrame, memBuffer, saved>>

InPort(port) ==
    /\ prog # << >>
    /\ Call("in", <<port>>) \in Head(prog)
    /\ prog' = Tail(prog)
    /\ ula' = inPort(Quiet(ula), port)
    /\ lastCall' = [op |-> "in", value |-> port, ret |-> 0]
    /\ UNCHANGED <<UlaFrame, memBuffer, saved, ulaHist>>

Chroma81OutPort(value) ==
    /\ prog # << >>
    /\ Call("chroma81 out", <<value>>) \in Head(prog)
    /\ prog' = Tail(prog)
    /\ ula' = chroma81OutPort(Quiet(ula), 32751, value)
    /\ lastCall' = [op |-> "chroma81 out", value |-> value, ret |-> 0]
    /\ UNCHANGED <<UlaFrame, memBuffer, saved, ulaHist>>

SerializeUla ==
    /\ prog # << >>
    /\ Call("ula serialize", << >>) \in Head(prog)
    /\ prog' = Tail(prog)
    /\ memBuffer' = Zx81UlaScreen_serialize(ula, NewMemBuffer)
    /\ saved' = Quiet(ula)
    /\ ula' = Quiet(ula)
    /\ lastCall' = [op |-> "ula serialize", value |-> 0, ret |-> 0]
    /\ UNCHANGED <<UlaFrame, ulaHist>>

NewZx81UlaScreen ==
    /\ prog # << >>
    /\ Call("ula new", << >>) \in Head(prog)
    /\ prog' = Tail(prog)
    /\ ula' \in {Zx81UlaScreen_constructor(border) : border \in NewBorderColors}
    /\ lastCall' = [op |-> "ula new", value |-> 0, ret |-> 0]
    /\ ulaHist' = NoUlaHistory
    /\ UNCHANGED <<UlaFrame, memBuffer, saved>>

DeserializeUla(n) ==
    /\ prog # << >>
    /\ Call("ula deserialize", <<n>>) \in Head(prog)
    /\ n <= Len(memBuffer.data)
    /\ prog' = Tail(prog)
    /\ \E r \in {Zx81UlaScreen_deserialize(Quiet(ula),
                     [data |-> SubSeq(memBuffer.data, 1, n), readOffset |-> 0])} :
           /\ ula' = r.this
           /\ lastCall' = [op |-> "ula deserialize", value |-> n,
                           ret |-> IF r.ok THEN 0 ELSE -1]
    /\ UNCHANGED <<UlaFrame, memBuffer, saved, ulaHist>>

\* The length of the snapshot of the video timing generator, in bytes.
UlaSnapshotLength == Len(Zx81UlaScreen_serialize(Zx81UlaScreen_constructor(0), NewMemBuffer).data)

(***************************************************************************)
(* The calls to the other objects.  Reads on the memory bus: an opcode     *)
(* fetch and another read with the bus-accurate generator constructed, a   *)
(* read with the frame-buffer generator constructed.  DisassemblyClass:    *)
(* setCurrentSlots, slotsChanged, prepareRefresh.  CustomCode: execute,    *)
(* which runs the user script that installs the handlers, and the four     *)
(* hooks, each with what the script's handler does at this call.           *)
(***************************************************************************)
DmaAll == <<dmaVars, emitted, busReads, busWrites, sel, readHist>>

UlaAll == <<ula, memBuffer, saved, ulaHist>>

M1Read8(mem, addr64k) ==
    /\ prog # << >>
    /\ Call("m1Read8", <<mem, addr64k>>) \in Head(prog)
    /\ prog' = Tail(prog)
    /\ lastCall' = [op |-> "m1Read8", value |-> <<mem, addr64k>>,
                    ret |-> ulaM1Read8(mem, addr64k)]
    /\ UNCHANGED <<DmaAll, UlaAll, dis, disHist, customApi>>

Read8(mem, addr64k) ==
    /\ prog # << >>
    /\ Call("read8", <<mem, addr64k>>) \in Head(prog)
    /\ prog' = Tail(prog)
    /\ lastCall' = [op |-> "read8", value |-> <<mem, addr64k>>,
                    ret |-> memoryRead8(mem, addr64k)]
    /\ UNCHANGED <<DmaAll, UlaAll, dis, disHist, customApi>>

FrameBufferRead8(mem, addr64k) ==
    /\ prog # << >>
    /\ Call("frame buffer read8", <<mem, addr64k>>) \in Head(prog)
    /\ prog' = Tail(prog)
    /\ lastCall' = [op |-> "frame buffer read8", value |-> <<mem, addr64k>>,
                    ret |-> ulaRead8(mem, addr64k)]
    /\ UNCHANGED <<DmaAll, UlaAll, dis, disHist, customApi>>

SetCurrentSlots(slots) ==
    /\ prog # << >>
    /\ Call("setCurrentSlots", <<slots>>) \in Head(prog)
    /\ prog' = Tail(prog)
    /\ dis' = setCurrentSlots(dis, slots)
    /\ lastCall' = [op |-> "setCurrentSlots", value |-> <<slots>>, ret |-> 0]
    /\ UNCHANGED <<DmaAll, UlaAll, disHist, customApi>>

SlotsChanged(slots) ==
    /\ prog # << >>
    /\ Call("slotsChanged", <<slots>>) \in Head(prog)
    /\ prog' = Tail(prog)
    /\ lastCall' = [op |-> "slotsChanged", value |-> <<slots>>,
                    ret |-> slotsChanged(dis, slots)]
    /\ UNCHANGED <<DmaAll, UlaAll, dis, disHist, customApi>>

PrepareRefresh ==
    /\ prog # << >>
    /\ Call("prepareRefresh", << >>) \in Head(prog)
    /\ prog' = Tail(prog)
    /\ dis' = prepareRefresh(dis)
    /\ lastCall' = [op |-> "prepareRefresh", value |-> << >>, ret |-> 0]
    /\ UNCHANGED <<DmaAll, UlaAll, disHist, customApi>>

\* slots is what Z80Registers.getSlots() returns during the call, remote the
\* memory Remote.readMemoryDump reads from.
SetNewAddresses(longCallStackAddresses, slots, remote) ==
    /\ prog # << >>
    /\ Call("setNewAddresses", <<longCallStackAddresses, slots, remote>>) \in Head(prog)
    /\ prog' = Tail(prog)
    /\ \E r \in {setNewAddresses(dis, longCallStackAddresses, slots, remote)} :
           /\ dis' = r.this
           /\ lastCall' = [op |-> "setNewAddresses",
                           value |-> <<longCallStackAddresses, slots, remote>>,
                           ret |-> [ret |-> r.ret, disassembled |-> r.disassembled,
                                    reads |-> r.reads]]
    /\ disHist' = [slots |-> <<slots>>]
    /\ UNCHANGED <<DmaAll, UlaAll, customApi>>

GetLinesForAddresses(addresses) ==
    /\ prog # << >>
    /\ Call("getLinesForAddresses", <<addresses>>) \in Head(prog)
    /\ prog' = Tail(prog)
    /\ lastCall' = [op |-> "getLinesForAddresses", value |-> <<addresses>>,
                    ret |-> getLinesForAddresses(dis, addresses)]
    /\ UNCHANGED <<DmaAll, UlaAll, dis, disHist, customApi>>

\* execute makes a new CustomCodeAPI and runs the script, which installs the
\* optional handlers or not.
CustomExecute(handlers) ==
    /\ prog # << >>
    /\ Call("custom execute", <<handlers>>) \in Head(prog)
    /\ prog' = Tail(prog)
    /\ customApi' = handlers
    /\ lastCall' = [op |-> "custom execute", value |-> <<handlers>>, ret |-> Returns(Undefined)]
    /\ UNCHANGED <<DmaAll, UlaAll, dis, disHist>>

CustomReadPort(handler) ==
    /\ prog # << >>
    /\ Call("custom readPort", <<handler>>) \in Head(prog)
    /\ prog' = Tail(prog)
    /\ lastCall' = [op |-> "custom readPort", value |-> <<handler>>,
                    ret |-> CustomCode_readPort(customApi, handler)]
    /\ UNCHANGED <<DmaAll, UlaAll, dis, disHist, customApi>>

CustomWritePort(handler) ==
    /\ prog # << >>
    /\ Call("custom writePort", <<handler>>) \in Head(prog)
    /\ prog' = Tail(prog)
    /\ lastCall' = [op |-> "custom writePort", value |-> <<handler>>,
                    ret |-> CustomCode_writePort(customApi, handler)]
    /\ UNCHANGED <<DmaAll, UlaAll, dis, disHist, customApi>>

CustomReceivedFromCustomUi(handler) ==
    /\ prog # << >>
    /\ Call("custom receivedFromCustomUi", <<handler>>) \in Head(prog)
    /\ prog' = Tail(prog)
    /\ lastCall' = [op |-> "custom receivedFromCustomUi", value |-> <<handler>>,
                    ret |-> CustomCode_receivedFromCustomUi(customApi, handler)]
    /\ UNCHANGED <<DmaAll, UlaAll, dis, disHist, customApi>>

CustomTick(handler) ==
    /\ prog # << >>
    /\ Call("custom tick", <<handler>>) \in Head(prog)
    /\ prog' = Tail(prog)
    /\ lastCall' = [op |-> "custom tick", value |-> <<handler>>,
                    ret |-> CustomCode_tick(customApi, handler)]
    /\ UNCHANGED <<DmaAll, UlaAll, dis, disHist, customApi>>

\* The values for the free choices of Next.
SomeAddresses == {16384, 49152}

SomeMemories == [SomeAddresses -> {0, 118}]

SomeSlots == {<< >>, <<1>>, <<1, 2>>}

SomeHandlers == {Returns(Undefined), Returns(<<127>>), Throws("x is not defined")}

SomeStacks == {<< >>, <<MemBase>>, <<65536 + MemBase, 65536 + MemBase + 2>>}

SomeRemotes == [1 .. MemSize -> {0, 62}]

Next ==
    \/ \E mem \in SomeMemories, addr64k \in SomeAddresses : M1Read8(mem, addr64k)
    \/ \E mem \in SomeMemories, addr64k \in SomeAddresses : Read8(mem, addr64k)
    \/ \E mem \in SomeMemories, addr64k \in SomeAddresses : FrameBufferRead8(mem, addr64k)
    \/ \E slots \in SomeSlots : SetCurrentSlots(slots)
    \/ \E slots \in SomeSlots : SlotsChanged(slots)
    \/ PrepareRefresh
    \/ \E stack \in SomeStacks, slots \in SomeSlots, remote \in SomeRemotes :
           SetNewAddresses(stack, slots, remote)
    \/ \E addresses \in SomeStacks : GetLinesForAddresses(addresses)
    \/ \E handlers \in [receivedFromCustomUi : BOOLEAN, tick : BOOLEAN] : CustomExecute(handlers)
    \/ \E handler \in SomeHandlers : CustomReadPort(handler)
    \/ \E handler \in SomeHandlers : CustomWritePort(handler)
    \/ \E handler \in SomeHandlers : CustomReceivedFromCustomUi(handler)
    \/ \E handler \in SomeHandlers : CustomTick(handler)
    \/ \E value \in Byte : WritePort(value)
    \/ ReadPort
    \/ Execute
    \/ GetState
    \/ Serialize
    \/ NewZxnDma
    \/ \E n \in 0 .. UlaSnapshotLength : Deserialize(n)
    \/ \E r \in Byte, t \in 0 .. 2 * TSTATES_PER_SCREEN + 1 : UlaExecute(r, t)
    \/ \E port \in Byte : OutPorts(port)
    \/ \E port \in Byte : InPort(port)
    \/ \E value \in Byte : Chroma81OutPort(value)
    \/ SerializeUla
    \/ NewZx81UlaScreen
    \/ \E n \in 0 .. UlaSnapshotLength : DeserializeUla(n)

(***************************************************************************)
(* SpecDecode: the write side.  After a prefix that gives both start       *)
(* addresses, the block length and the cycle lengths a value, the caller   *)
(* writes any byte 0..255 and then up to MaxParams bytes of ParamBytes.    *)
(***************************************************************************)
MaxParams == 5

\* Low two bits 0, 1, 2 and 3; bit 5 set and clear; bit 7 set and clear.
ParamBytes == {0, 33, 2, 255}

DecodePrefix ==
    << Wr({125}), Wr({52}), Wr({18}), Wr({120}), Wr({86}),    \* WR0: A = 0x1234, length = 0x5678
       Wr({173}), Wr({205}), Wr({171}),                       \* WR4: B = 0xABCD
       Wr({84}), Wr({0, 3}),                                  \* WR1 and its cycle-length byte
       Wr({80}), Wr({1, 3}) >>                                \* WR2 and its cycle-length byte

DecodePrograms == { DecodePrefix \o << Wr(Byte) >> \o Times(MaxParams, Wr(ParamBytes)) }

InitDecode == InitWith(DecodePrograms)

NextDecode == \E value \in Byte : WritePort(value)

SpecDecode == InitDecode /\ [][NextDecode]_vars

(***************************************************************************)
(* Arithmetic on bytes for stating the properties (no use of the model's   *)
(* bit operations).                                                        *)
(***************************************************************************)
Bit(v, i) == (v \div (2 ^ i)) % 2

Low(w) == w % 256

High(w) == w \div 256

RECURSIVE PopCount(_)
PopCount(n) == IF n = 0 THEN 0 ELSE (n % 2) + PopCount(n \div 2)

Idle == writePortFunc = "decodeWRGroup"

\* The k-th parameter byte of a WR0 sequence goes to the k-th set bit out of
\* bits 3, 4, 5, 6 of the first byte.
WR0Slots(first) == SelectSeq(<<3, 4, 5, 6>>, LAMBDA i : Bit(first, i) = 1)

\* The byte written for bit i so far, or keep if none was.
WR0Written(i, keep) ==
    LET slots == WR0Slots(sel.first)
    IN  IF \E k \in 1 .. Len(sel.params) : slots[k] = i
        THEN sel.params[CHOOSE k \in 1 .. Len(sel.params) : slots[k] = i]
        ELSE keep

(***************************************************************************)
(* C3: during and after a WR0 sequence, the halves of the port-A start     *)
(* address and of the block length whose pending bit (3, 4, 5, 6 of the    *)
(* first byte) was set hold the parameter bytes written for them, in the   *)
(* order A low, A high, length low, length high; the other halves keep the *)
(* value they had before the sequence; the direction is bit 2 of the first *)
(* byte.                                                                   *)
(***************************************************************************)
C3_WR0FieldsAreTheBytesWritten ==
    (sel.reg = 0 /\ Len(sel.params) <= Len(WR0Slots(sel.first))) =>
        /\ Low(portAstartAddress) = WR0Written(3, Low(sel.pre.portAstartAddress))
        /\ High(portAstartAddress) = WR0Written(4, High(sel.pre.portAstartAddress))
        /\ Low(blockLength) = WR0Written(5, Low(sel.pre.blockLength))
        /\ High(blockLength) = WR0Written(6, High(sel.pre.blockLength))
        /\ transferDirectionPortAtoB = (Bit(sel.first, 2) = 1)
        /\ (Idle <=> Len(sel.params) = Len(WR0Slots(sel.first)))

\* First byte 0x51 (bits 4 and 6 pending), then 0xFF and 0x21: A = 0xFF34, length = 0x2178.
C3_Witness ==
    /\ sel.reg = 0 /\ sel.first = 81 /\ sel.params = <<255, 33>>
    /\ sel.pre.portAstartAddress = 4660 /\ sel.pre.blockLength = 22136
    /\ portAstartAddress = 65332 /\ blockLength = 8568
    /\ Idle

(***************************************************************************)
(* C8 as claimed: the k set bits of the pending-fields bitmask left by a   *)
(* register's first byte are the number of bytes consumed as parameters:   *)
(* each parameter clears one pending bit, and the decoder selects a        *)
(* register again exactly when k parameters were written.                  *)
(***************************************************************************)
C8_Claimed_ExactlyKParameters ==
    sel.first >= 0 =>
        LET k == PopCount(sel.mask0)
        IN  /\ Len(sel.params) <= k
            /\ PopCount(nextDecodeBitMask) = k - Len(sel.params)
            /\ (Idle <=> Len(sel.params) = k)

\* In WR2, bit 5 of the cycle-length byte gates one further byte.
ParametersDue ==
    PopCount(sel.mask0)
        + (IF sel.reg = 2 /\ Len(sel.params) >= 1 /\ Bit(sel.params[1], 5) = 1
           THEN 1 ELSE 0)

(***************************************************************************)
(* C8 as amended: the decode state drains after k parameter bytes, k the   *)
(* number of gating bits set in the first byte, for every register; except *)
(* that in WR2 the cycle-length byte, when its bit 5 is set, swaps pending *)
(* bit 6 for pending bit 5 and so gates one more (prescalar) byte.  Every  *)
(* other parameter clears exactly one pending bit; the byte after the last *)
(* parameter selects a register again.                                     *)
(***************************************************************************)
C8_DecodeStateDrains ==
    sel.first >= 0 =>
        /\ Len(sel.params) <= ParametersDue
        /\ PopCount(nextDecodeBitMask) = ParametersDue - Len(sel.params)
        /\ (Idle <=> Len(sel.params) = ParametersDue)

\* WR2 with a cycle-length byte (0x50), the byte 0x21 with bit 5 set, and the
\* prescalar byte 0xFF: two parameters after one gating bit.
C8_Witness ==
    /\ sel.reg = 2 /\ sel.first = 80 /\ sel.params = <<33, 255>>
    /\ zxnPrescalar = 255 /\ Idle

HandlerOf(r) ==
    <<"writeWR0", "writeWR1", "writeWR2", "writeWR3", "writeWR4", "writeWR5", "writeWR6">>[r + 1]

\* The register a first byte selects, as the claim words it.
SelectedRegister(b) ==
    IF Bit(b, 7) = 1 THEN 3 + (b % 4)
    ELSE IF b % 4 = 0 THEN (IF Bit(b, 2) = 1 THEN 1 ELSE 2)
    ELSE 0

\* The parameter bytes the first byte b of register r asks for.
FirstByteMask(r, b) ==
    CASE r = 0 -> 8 * ((b \div 8) % 16)
      [] r \in {1, 2} -> 64 * Bit(b, 6)
      [] r = 4 -> 4 * ((b \div 4) % 4)
      [] r = 6 -> IF b = 187 THEN 128 ELSE 0
      [] OTHER -> 0

(***************************************************************************)
(* C9: a byte written when the decoder selects a register is decoded as    *)
(* WR3..WR6 by its low two bits if bit 7 is set, else as WR1 (bit 2 set)   *)
(* or WR2 (bit 2 clear) if its low two bits are 00, else as WR0; and the   *)
(* same byte is processed as the first byte of that register: it sets the  *)
(* register's first-byte fields and its pending parameters, and the        *)
(* register's handler takes the next byte exactly when one is pending.     *)
(***************************************************************************)
C9_RegisterSelection ==
    (sel.first >= 0 /\ sel.params = << >>) =>
        LET b == sel.first
            r == SelectedRegister(b)
        IN  /\ sel.reg = r
            /\ nextDecodeBitMask = FirstByteMask(r, b)
            /\ writePortFunc = IF nextDecodeBitMask = 0 THEN "decodeWRGroup" ELSE HandlerOf(r)
            /\ r = 0 => transferDirectionPortAtoB = (Bit(b, 2) = 1)
            /\ r = 1 => portAisIo = (Bit(b, 3) = 1)
            /\ r = 2 => portBisIo = (Bit(b, 3) = 1)
            /\ r = 3 => enabled = (Bit(b, 6) = 1)
            /\ r = 5 => autoRestart = (Bit(b, 5) = 1)
            /\ b = 135 => enabled

\* 0x44: bit 7 clear, low two bits 00, bit 2 set: WR1, with a cycle-length byte pending.
C9_Witness ==
    /\ sel.first = 68 /\ sel.params = << >> /\ sel.reg = 1
    /\ writePortFunc = "writeWR1" /\ nextDecodeBitMask = 64

\* The cycle-length byte of the sequence being written, for WR1 and WR2.
CycleByteWritten == sel.reg \in {1, 2} /\ sel.mask0 = 64 /\ Len(sel.params) >= 1

CycleLengthNow == IF sel.reg = 1 THEN portAcycleLength ELSE portBcycleLength

CycleLengthBefore ==
    IF sel.reg = 1 THEN sel.pre.portAcycleLength ELSE sel.pre.portBcycleLength

(***************************************************************************)
(* C10 as claimed: after the cycle-length byte of WR1 or WR2 with low two  *)
(* bits v, the port's override is 0 (default timing) if v = 3, whatever it *)
(* was before, and 1 + (v XOR 3) = 4 - v otherwise.                        *)
(***************************************************************************)
C10_Claimed_ThreeMeansDefault ==
    CycleByteWritten =>
        LET v == sel.params[1] % 4
        IN  CycleLengthNow = IF v = 3 THEN 0 ELSE 4 - v

(***************************************************************************)
(* C10 as amended: the encoded value 3 leaves the port's cycle-length      *)
(* override as it was (default timing only if no override was in force);   *)
(* an encoded value v in 0..2 sets it to 1 + (v XOR 3), i.e. 4, 3, 2.      *)
(***************************************************************************)
C10_ThreeKeepsCycleLength ==
    CycleByteWritten =>
        LET v == sel.params[1] % 4
        IN  CycleLengthNow = IF v = 3 THEN CycleLengthBefore ELSE 4 - v

\* Port A has the override 4; WR1 with cycle-length byte 0xFF (encoded 3) keeps it.
C10_Witness ==
    /\ sel.reg = 1 /\ sel.params = <<255>>
    /\ sel.pre.portAcycleLength = 4 /\ portAcycleLength = 4

\* The command bytes that writeWR6 knows.
WR6Commands == {195, 199, 203, 191, 139, 167, 207, 211, 135, 131, 187}

\* A byte routed to WR6 (bit 7 set, low two bits 11) that is no command.
UnknownCommand(b) == b >= 128 /\ b % 4 = 3 /\ b \notin WR6Commands

(***************************************************************************)
(* C13: an unrecognized command byte (routed to WR6, none of the eleven    *)
(* command bytes) written to the idle decoder is ignored: no register,     *)
(* counter, status or read-sequence field changes, nothing else of the     *)
(* controller changes either, and the decoder awaits a register selection. *)
(***************************************************************************)
C13_UnknownCommandIgnored ==
    (sel.params = << >> /\ UnknownCommand(sel.first)) =>
        /\ sel.reg = 6
        /\ Idle /\ nextDecodeBitMask = 0
        /\ This = sel.pre

\* 0xFF written to the idle decoder of a controller with registers set.
C13_Witness ==
    /\ sel.first = 255 /\ sel.params = << >> /\ sel.reg = 6
    /\ Idle
    /\ portAstartAddress = 4660 /\ blockLength = 22136 /\ portBstartAddress = 43981
    /\ portAcycleLength = 4 /\ portBcycleLength = 3

(***************************************************************************)
(* SpecRead: the read side.  The caller programs a two-byte transfer from  *)
(* 0x1234 to 0xABCD, enables the controller or not, and calls execute, so  *)
(* that the status byte and the counters differ; it reads up to            *)
(* MaxPreReads bytes, may then write the command 0xA7, programs any read   *)
(* mask (0xBB and any byte) and reads MaxReads times.                      *)
(***************************************************************************)
MaxPreReads == 7

MaxReads == 9

ReadPrefix ==
    << Wr({125}), Wr({52}), Wr({18}), Wr({2}), Wr({0}),       \* WR0: A = 0x1234, length = 2
       Wr({20}), Wr({16}),                                    \* WR1, WR2: memory, increment
       Wr({173}), Wr({205}), Wr({171}),                       \* WR4: continuous, B = 0xABCD
       Wr({207}), Wr({135, 131}), Ex >>                       \* load, enable or disable, execute

ReadPrograms ==
    { ReadPrefix \o Times(n, Rd) \o init \o << Wr({187}), Wr(Byte) >> \o Times(MaxReads, Rd) :
        n \in 0 .. MaxPreReads, init \in { << >>, << Wr({167}) >> } }

InitRead == InitWith(ReadPrograms)

NextRead ==
    \/ \E value \in Byte : WritePort(value)
    \/ ReadPort
    \/ Execute

SpecRead == InitRead /\ [][NextRead]_vars

\* The number i of the bit 2^i.
BitIndex(bit) == CHOOSE i \in 0 .. 7 : 2 ^ i = bit

SetBits(mask) == {i \in 0 .. 6 : Bit(mask, i) = 1}

\* The set bit after bit i in ascending order, wrapping around.
NextSetBit(mask, i) ==
    IF \E j \in SetBits(mask) : j > i
    THEN CHOOSE j \in SetBits(mask) : j > i /\ \A h \in SetBits(mask) : h > i => j <= h
    ELSE CHOOSE j \in SetBits(mask) : \A h \in SetBits(mask) : j <= h

\* The byte that bit i of the read mask stands for.
ByteOfBit(i) ==
    <<statusByteRR0,
      Low(blockCounterRR12), High(blockCounterRR12),
      Low(portAaddressCounterRR34), High(portAaddressCounterRR34),
      Low(portBaddressCounterRR56), High(portBaddressCounterRR56)>>[i + 1]

ReadBit(n) == BitIndex(readHist[n].bit)

(***************************************************************************)
(* C6: with a read mask that is not 0, every read returns the byte of a    *)
(* set bit of the mask (bit 0 status, 1/2 block counter low/high, 3/4      *)
(* port-A counter low/high, 5/6 port-B counter low/high); each read takes  *)
(* the next set bit after the previous read's in ascending order, wrapping *)
(* around; so any k consecutive reads, k the number of set bits, visit     *)
(* every set bit exactly once.                                             *)
(***************************************************************************)
C6_ReadMaskRotation ==
    readMask # 0 =>
        LET k == Cardinality(SetBits(readMask))
        IN  /\ \A n \in 1 .. Len(readHist) :
                 /\ readHist[n].bit \in {2 ^ i : i \in SetBits(readMask)}
                 /\ readHist[n].ret = ByteOfBit(ReadBit(n))
                 /\ n > 1 => ReadBit(n) = NextSetBit(readMask, ReadBit(n - 1))
            /\ \A a \in 1 .. Len(readHist) :
                 a + k - 1 <= Len(readHist) =>
                    /\ {ReadBit(n) : n \in a .. a + k - 1} = SetBits(readMask)
                    /\ \A m, n \in a .. a + k - 1 : m # n => ReadBit(m) # ReadBit(n)

\* Mask 0b0101_0001 after a transfer: the reads give status, port-A counter high,
\* port-B counter high, and status again.
C6_Witness ==
    /\ readMask = 81 /\ Len(readHist) = 4
    /\ statusByteRR0 = 27 /\ portAaddressCounterRR34 = 4662 /\ portBaddressCounterRR56 = 43983
    /\ [n \in 1 .. 4 |-> readHist[n].ret] = <<27, 18, 171, 27>>

\* The reads made since the read mask 0b000_0011 was programmed.
MaskThreeProgrammed == sel.first = 187 /\ sel.params = <<3>>

(***************************************************************************)
(* C7 as claimed: after the read mask 0b000_0011 was programmed (0xBB,     *)
(* 0x03), in any state, the next four reads return the status byte, the    *)
(* block-counter low byte, the status byte, the block-counter low byte.    *)
(***************************************************************************)
C7_Claimed_StatusFirst ==
    MaskThreeProgrammed =>
        \A n \in 1 .. Len(readHist) :
            n <= 4 =>
                /\ ReadBit(n) = (n + 1) % 2
                /\ readHist[n].ret =
                     IF n % 2 = 1 THEN statusByteRR0 ELSE Low(blockCounterRR12)

(***************************************************************************)
(* C7 as amended: programming the read mask does not move the              *)
(* read-sequence pointer.  After 0xBB, 0x03 the next four reads return     *)
(* status, block-counter low, status, block-counter low unless the last    *)
(* byte read before was the status byte (the pointer is on bit 0); then    *)
(* they return block-counter low, status, block-counter low, status.  The  *)
(* pointer is off bit 0 after construction and after command 0xA7.         *)
(***************************************************************************)
C7_StatusFirstUnlessJustRead ==
    MaskThreeProgrammed =>
        LET shift == IF sel.pre.lastReadSequenceBit = 1 THEN 1 ELSE 0
        IN  \A n \in 1 .. Len(readHist) :
                n <= 4 =>
                    /\ ReadBit(n) = (n + 1 + shift) % 2
                    /\ readHist[n].ret =
                         IF (n + shift) % 2 = 1 THEN statusByteRR0
                         ELSE Low(blockCounterRR12)

\* The status byte was the last byte read before the mask was programmed: the
\* four reads start with the block-counter low byte.
C7_Witness ==
    /\ MaskThreeProgrammed /\ sel.pre.lastReadSequenceBit = 1
    /\ statusByteRR0 = 27
    /\ [n \in 1 .. Len(readHist) |-> readHist[n].ret] = <<0, 27, 0, 27>>

(***************************************************************************)
(* C14: while the read mask is 0 (0xBB followed by a byte whose low 7 bits *)
(* are 0), every readPort returns 0 and leaves the read-sequence pointer   *)
(* and every other field unchanged, however many reads follow each other.  *)
(***************************************************************************)
C14_EmptyMaskReadsNothing ==
    [][ (lastCall'.op = "read" /\ readMask = 0) =>
            /\ lastCall'.ret = 0
            /\ UNCHANGED <<dmaVars, Bus>> ]_vars

\* Nine reads with the mask 0 (programmed by 0xBB, 0x80) after a transfer and
\* three reads that left the pointer on bit 2.
C14_Witness ==
    /\ sel.first = 187 /\ sel.params = <<128>> /\ readMask = 0
    /\ Len(readHist) = 9
    /\ \A n \in 1 .. 9 : readHist[n].ret = 0 /\ readHist[n].bit = 4
    /\ lastReadSequenceBit = 4 /\ statusByteRR0 = 27

(***************************************************************************)
(* SpecXfer: the transfer.  The caller writes WR0 (direction, port-A start *)
(* address, block length), WR1 and WR2 (port kind, step, cycle length,     *)
(* prescalar), WR4 (mode, port-B start address), enables the controller,   *)
(* loads the counters and calls execute twice.                             *)
(***************************************************************************)
MaxBlockLow == 2

\* The addresses and the steps vary, the timing is the default one.
AddressPrograms ==
    { << Wr({125, 121}),                          \* WR0: A -> B or B -> A
         Wr({0, 255}), Wr({0, 255}),              \* port-A start address
         Wr(0 .. MaxBlockLow), Wr({0, 1}),        \* block length
         Wr({20, 4, 44}),                         \* WR1: memory ++, memory --, I/O fixed
         Wr({16, 0, 40}),                         \* WR2: memory ++, memory --, I/O fixed
         Wr({173, 205}),                          \* WR4: continuous or burst
         Wr({0, 255}), Wr({0, 255}),              \* port-B start address
         Wr({135}), Wr({207}), Ex, Ex >> }        \* enable, load, execute, execute

PortATimings ==
    { << Wr({84, 92}), Wr({0, 1, 2, 3}) >> }      \* memory or I/O, ++, and a cycle-length byte

PortBTimings ==
    { << Wr({80, 88}), Wr({0, 2, 3}) >>,          \* memory or I/O, ++, and a cycle-length byte
      << Wr({80}), Wr({33}), Wr({0, 5}) >> }      \* memory ++, cycle length 3, a prescalar byte

\* The timing varies, the addresses are 0x00FF and 0xFF00.
TimingPrograms ==
    { << Wr({125}), Wr({255}), Wr({0}),
         Wr(0 .. MaxBlockLow), Wr({0, 1}) >>
      \o pa \o pb \o
      << Wr({173}), Wr({0}), Wr({255}),
         Wr({135}), Wr({207}), Ex, Ex >> :
        pa \in PortATimings, pb \in PortBTimings }

XferPrograms == AddressPrograms \cup TimingPrograms

InitXfer == InitWith(XferPrograms)

NextXfer ==
    \/ \E value \in Byte : WritePort(value)
    \/ Execute

SpecXfer == InitXfer /\ [][NextXfer]_vars

\* The last call was an execute that completed a continuous transfer.
TransferCompleted == lastCall.op = "execute" /\ lastOperation.text = "copy"

\* x modulo 65536, for x >= -65536.
Mod16(x) == (x + 65536) % 65536

SrcIsIo == IF transferDirectionPortAtoB THEN portAisIo ELSE portBisIo
DstIsIo == IF transferDirectionPortAtoB THEN portBisIo ELSE portAisIo
SrcStart == IF transferDirectionPortAtoB THEN portAstartAddress ELSE portBstartAddress
DstStart == IF transferDirectionPortAtoB THEN portBstartAddress ELSE portAstartAddress
SrcStep == IF transferDirectionPortAtoB THEN portAadd ELSE portBadd
DstStep == IF transferDirectionPortAtoB THEN portBadd ELSE portAadd

\* The bus saw n reads then writes: read i from the source at start + i*step,
\* write i of the byte read to the destination at start + i*step.
MovedOnBus(n, srcStart, dstStart) ==
    /\ Len(busReads) = n
    /\ Len(busWrites) = n
    /\ \A i \in 1 .. n :
         /\ busReads[i].io = SrcIsIo
         /\ busReads[i].address = Mod16(srcStart + (i - 1) * SrcStep)
         /\ busWrites[i].io = DstIsIo
         /\ busWrites[i].address = Mod16(dstStart + (i - 1) * DstStep)
         /\ busWrites[i].value = busReads[i].value

(***************************************************************************)
(* C2 as claimed: an execute that completes a continuous transfer with     *)
(* prescalar 0 and block length N has moved N bytes over the bus, byte i   *)
(* read from the source port at counter + i*step and written to the        *)
(* destination port at counter + i*step (the counters were loaded from the *)
(* start addresses just before).                                           *)
(***************************************************************************)
C2_Claimed_DataIsMoved ==
    TransferCompleted => MovedOnBus(blockLength, SrcStart, DstStart)

(***************************************************************************)
(* C4 as claimed: load followed by execute on an enabled controller in     *)
(* continuous mode with prescalar 0 transfers exactly N = blockLength      *)
(* bytes and leaves each port's address counter at (start + N*step) mod    *)
(* 65536.                                                                  *)
(***************************************************************************)
C4_Claimed_NBytesAndCounters ==
    TransferCompleted =>
        /\ Len(busWrites) = blockLength
        /\ portAaddressCounterRR34 = (portAstartAddress + blockLength * portAadd) % 65536
        /\ portBaddressCounterRR56 = (portBstartAddress + blockLength * portBadd) % 65536

\* The part of C4 about the counters alone.
CountersAfterTransfer ==
    TransferCompleted =>
        /\ portAaddressCounterRR34 = (portAstartAddress + blockLength * portAadd) % 65536
        /\ portBaddressCounterRR56 = (portBstartAddress + blockLength * portBadd) % 65536

PortCost(cycleLength, isIo) ==
    IF cycleLength # 0 THEN cycleLength ELSE IF isIo THEN 4 ELSE 3

(***************************************************************************)
(* C5: execute returns, for a completed continuous transfer of N bytes,    *)
(* (costA + costB) * N, the cost of a port being its cycle-length override *)
(* if that is not 0 and else 3 for memory and 4 for I/O: 6*N with default  *)
(* timing and two memory ports, 8*N with default timing and two I/O ports. *)
(***************************************************************************)
C5_CycleCost ==
    TransferCompleted =>
        /\ lastCall.ret = (PortCost(portAcycleLength, portAisIo)
                            + PortCost(portBcycleLength, portBisIo)) * blockLength
        /\ (portAcycleLength = 0 /\ portBcycleLength = 0 /\ ~portAisIo /\ ~portBisIo)
              => lastCall.ret = 6 * blockLength
        /\ (portAcycleLength = 0 /\ portBcycleLength = 0 /\ portAisIo /\ portBisIo)
              => lastCall.ret = 8 * blockLength

\* 257 bytes, port A with the override 2, port B I/O with default timing: 6 * 257.
C5_Witness ==
    /\ TransferCompleted /\ blockLength = 257
    /\ portAcycleLength = 2 /\ portBcycleLength = 0 /\ portBisIo
    /\ lastCall.ret = 1542

(***************************************************************************)
(* C12: an execute that completes a continuous transfer with prescalar 0   *)
(* leaves the block counter 0, the status byte signalling end of block     *)
(* (bit 5 is 0), status bit 0 set exactly when blockLength > 0, and the    *)
(* controller disabled; with auto-restart not set, an execute that follows *)
(* it with no enable in between returns 0 and transfers nothing.           *)
(***************************************************************************)
C12_TransferIsOneShot ==
    [][ /\ (lastCall'.op = "execute" /\ enabled /\ ~burstMode /\ zxnPrescalar = 0) =>
              /\ blockCounterRR12' = 0
              /\ Bit(statusByteRR0', 5) = 0
              /\ Bit(statusByteRR0', 0) = (IF blockLength > 0 THEN 1 ELSE 0)
              /\ ~enabled'
        /\ (lastCall'.op = "execute" /\ TransferCompleted /\ ~autoRestart) =>
              /\ lastCall'.ret = 0
              /\ UNCHANGED <<Bus, Counters, statusByteRR0, enabled>> ]_vars

\* The second execute after a transfer of 258 bytes: nothing, 0 cycles.
C12_Witness ==
    /\ prog = << >> /\ lastCall.op = "execute" /\ lastCall.ret = 0
    /\ lastOperation.text = "NOP"
    /\ ~burstMode /\ zxnPrescalar = 0 /\ blockLength = 258
    /\ statusByteRR0 = 27 /\ ~enabled /\ blockCounterRR12 = 0
    /\ portAstartAddress = 0 /\ portAadd = 1 /\ portAaddressCounterRR34 = 258

(***************************************************************************)
(* C15: on the unimplemented transfer paths, an enabled controller in      *)
(* burst mode or in continuous mode with a prescalar that is not 0,        *)
(* execute returns 0, makes no transfer and leaves the start addresses,    *)
(* block length, port kinds, steps, cycle lengths, mode flags, address     *)
(* counters, block counter, status byte and enabled flag unchanged.        *)
(***************************************************************************)
C15_UnimplementedPathsChangeNothing ==
    [][ (lastCall'.op = "execute" /\ enabled /\ (burstMode \/ zxnPrescalar # 0)) =>
            /\ lastCall'.ret = 0
            /\ UNCHANGED <<Bus, RegisterFile, Counters, statusByteRR0, enabled>> ]_vars

\* Continuous mode with the prescalar 5 and 258 bytes to move: after both
\* executes the controller is still enabled and the counters are as loaded.
C15_Witness ==
    /\ prog = << >> /\ lastCall.op = "execute" /\ lastCall.ret = 0
    /\ enabled /\ ~burstMode /\ zxnPrescalar = 5 /\ blockLength = 258
    /\ portAaddressCounterRR34 = 255 /\ portBaddressCounterRR56 = 65280
    /\ statusByteRR0 = 0

(***************************************************************************)
(* SpecScenario: the scenario of the specification, byte for byte, on a    *)
(* controller whose port-B start address was set through WR4 (with any of  *)
(* the four mode codes).                                                   *)
(***************************************************************************)
ScenarioPrograms ==
    { << Wr({141, 173, 205, 237}), Wr({0, 128}), Wr({80, 128, 192}),   \* WR4: port-B start address
         Wr({4}), Wr({0}), Wr({64}), Wr({16}), Wr({0}),                \* 0b0000_0100, 0x00, 0x40, 0x10, 0x00
         Wr({13}), Wr({13}),                                           \* 0b0000_1101 twice
         Wr({207}), Wr({135}), Ex >> }                                 \* load, enable, execute

InitScenario == InitWith(ScenarioPrograms)

NextScenario ==
    \/ \E value \in Byte : WritePort(value)
    \/ Execute

SpecScenario == InitScenario /\ [][NextScenario]_vars

(***************************************************************************)
(* C1 as claimed: after the scenario's bytes, execute copies the 16 bytes  *)
(* at 0x4000..0x400F to the port-B start address onwards and returns 96.   *)
(***************************************************************************)
C1_Claimed_Copies16Returns96 ==
    (prog = << >> /\ lastCall.op = "execute") =>
        /\ lastCall.ret = 96
        /\ MovedOnBus(16, 16384, portBstartAddress)

(***************************************************************************)
(* SpecAny: any calls in any order.  The caller sets up a transfer whose   *)
(* counters wrap around (start addresses 0x0000 and 0xFFFF, steps +1 and   *)
(* -1), continuous or burst, enables the controller, and then issues       *)
(* MaxTail calls chosen freely among execute, readPort and writePort with  *)
(* one of AnyBytes.                                                        *)
(***************************************************************************)
MaxTail == 4

\* WR0 with all four parameters, a parameter byte and unknown command, a
\* parameter byte, enable, load, WR2 with a cycle-length byte, read mask.
AnyBytes == {125, 255, 0, 135, 207, 80, 187}

AnyCalls == Wr(AnyBytes) \cup Rd \cup Ex

AnyPrefix ==
    { << Wr({125}), Wr({a}), Wr({a}), Wr({2}), Wr({0}),   \* WR0: A -> B, A = 0x0000 or 0xFFFF, length 2
         Wr({st[1]}), Wr({st[2]}),                        \* WR1, WR2: the steps
         Wr({mode}), Wr({b}), Wr({b}),                    \* WR4: the mode, B = 0x0000 or 0xFFFF
         Wr({207}), Wr({135}) >> :                        \* load, enable
        a \in {0, 255}, b \in {0, 255},
        st \in {<<20, 0>>, <<4, 16>>},                    \* A++ B-- or A-- B++
        mode \in {173, 205} }                             \* continuous or burst

AnyPrograms == { p \o Times(MaxTail, AnyCalls) : p \in AnyPrefix }

InitAny == InitWith(AnyPrograms)

NextAny ==
    \/ \E value \in Byte : WritePort(value)
    \/ ReadPort
    \/ Execute

SpecAny == InitAny /\ [][NextAny]_vars

(***************************************************************************)
(* C11: execute on a disabled controller returns 0, makes no bus access,   *)
(* and leaves the register file, the address and block counters, the       *)
(* status byte, the read-sequence state and the decode state unchanged.    *)
(***************************************************************************)
C11_DisabledExecuteChangesNothing ==
    [][ (lastCall'.op = "execute" /\ ~enabled) =>
            /\ lastCall'.ret = 0
            /\ UNCHANGED <<Bus, RegisterFile, Counters, statusByteRR0,
                           ReadSequence, DecodeState, enabled>> ]_vars

\* A disabled execute in the middle of a WR0 sequence, after a completed
\* transfer and a read: status 0x1B, counters moved, pointer on bit 0.
C11_Witness ==
    /\ lastCall.op = "execute" /\ lastCall.ret = 0 /\ ~enabled
    /\ lastOperation.text = "NOP"
    /\ writePortFunc = "writeWR0" /\ nextDecodeBitMask = 120
    /\ statusByteRR0 = 27 /\ lastReadSequenceBit = 1
    /\ portAstartAddress = 65535 /\ portAaddressCounterRR34 = 1

(***************************************************************************)
(* C16: in every state reached by any sequence of writePort (a byte),      *)
(* readPort and execute, the two address counters, the two start addresses *)
(* and the block length are integers in 0..65535; the counters wrap around *)
(* when stepping down from 0 and up from 65535.                            *)
(***************************************************************************)
C16_SixteenBitFields ==
    /\ portAaddressCounterRR34 \in 0 .. 65535
    /\ portBaddressCounterRR56 \in 0 .. 65535
    /\ portAstartAddress \in 0 .. 65535
    /\ portBstartAddress \in 0 .. 65535
    /\ blockLength \in 0 .. 65535

\* Two transfers of 2 bytes without a load in between: port A stepped up from
\* 0xFFFF to 3, port B down from 0 to 0xFFFC.
C16_Witness ==
    /\ TransferCompleted
    /\ portAstartAddress = 65535 /\ portAadd = 1 /\ portAaddressCounterRR34 = 3
    /\ portBstartAddress = 0 /\ portBadd = -1 /\ portBaddressCounterRR56 = 65532

(***************************************************************************)
(* SpecDmaSnapshot: the snapshot of the DMA controller.  The caller writes *)
(* the first k bytes of a sequence that sets the registers, loads, enables *)
(* and programs a read mask (k = 0 is the controller just constructed),    *)
(* serializes the controller, constructs another one and deserializes the  *)
(* buffer into it.                                                         *)
(***************************************************************************)
DmaPopulation ==
    DecodePrefix \o << Wr({207}), Wr({135}), Wr({187}), Wr(Byte) >>

DmaSnapshotPrograms ==
    { SubSeq(DmaPopulation, 1, k)
      \o << {Call("serialize", 0)}, {Call("new", 0)}, {Call("deserialize", 0)} >> :
        k \in 0 .. Len(DmaPopulation) }

InitDmaSnapshot == InitWith(DmaSnapshotPrograms)

NextDmaSnapshot ==
    \/ \E value \in Byte : WritePort(value)
    \/ Serialize
    \/ NewZxnDma
    \/ Deserialize(0)

SpecDmaSnapshot == InitDmaSnapshot /\ [][NextDmaSnapshot]_vars

\* The observable snapshot of a controller: register file, counters, status,
\* read mask and pointer, enabled flag, decode state.
DmaSnapshot(d) ==
    << d.transferDirectionPortAtoB, d.portAstartAddress, d.portBstartAddress,
       d.blockLength, d.portAisIo, d.portBisIo, d.portAadd, d.portBadd,
       d.portAcycleLength, d.portBcycleLength, d.zxnPrescalar, d.burstMode,
       d.autoRestart, d.blockCounterRR12, d.portAaddressCounterRR34,
       d.portBaddressCounterRR56, d.statusByteRR0, d.readMask,
       d.lastReadSequenceBit, d.enabled, d.writePortFunc, d.nextDecodeBitMask >>

(***************************************************************************)
(* C17 as claimed: serializing a controller (populated by port writes or   *)
(* just constructed) into a buffer and deserializing the buffer into       *)
(* another controller just constructed gives a controller with the same    *)
(* observable snapshot.                                                    *)
(***************************************************************************)
C17_Claimed_DmaRoundTrip ==
    (lastCall.op = "deserialize" /\ lastCall.ret = 0) =>
        DmaSnapshot(This) = DmaSnapshot(saved)

\* The part of C17 about a controller just constructed.
FreshDmaRoundTrip ==
    (lastCall.op = "deserialize" /\ DmaSnapshot(saved) = DmaSnapshot(constructor)) =>
        DmaSnapshot(This) = DmaSnapshot(saved)

(***************************************************************************)
(* SpecUlaSnapshot: the snapshot of the video timing generator.  The       *)
(* caller issues MaxUlaCalls calls chosen freely among UlaCalls, so that   *)
(* every field takes a value other than its initial one, serializes the    *)
(* generator, constructs another one and deserializes into it the buffer   *)
(* or one of its prefixes.                                                 *)
(***************************************************************************)
MaxUlaCalls == 5

\* execute with bit 6 of R set or clear after 16 and 191 t-states, and after
\* more than two frames.
UlaExecuteArgs ==
    {<<r, t>> : r \in {0, 64}, t \in {16, 191}} \cup {<<0, 2 * TSTATES_PER_SCREEN + 1>>}

\* OUT 0xFD and 0xFE.
UlaOutPorts == {253, 254}

\* IN 0xFE.
UlaInPorts == {254}

\* Chroma81 OUT with border colour 10, attribute mode, enabled.
UlaChromaValues == {58}

UlaCalls ==
    {Call("ula execute", a) : a \in UlaExecuteArgs}
    \cup {Call("out", <<port>>) : port \in UlaOutPorts}
    \cup {Call("in", <<port>>) : port \in UlaInPorts}
    \cup {Call("chroma81 out", <<value>>) : value \in UlaChromaValues}

\* The lengths of the buffer passed to deserialize: the whole buffer, and the
\* buffer cut before, inside and after the first number and before the last field.
CutLengths == {0, 1, 5, 10, UlaSnapshotLength - 1, UlaSnapshotLength}

UlaSnapshotPrograms ==
    { Times(MaxUlaCalls, UlaCalls)
      \o << {Call("ula serialize", << >>)}, {Call("ula new", << >>)},
            {Call("ula deserialize", <<n>>) : n \in CutLengths} >> }

InitUlaSnapshot == InitBoth(UlaSnapshotPrograms, NewBorderColors)

NextUlaSnapshot ==
    \/ \E a \in UlaExecuteArgs : UlaExecute(a[1], a[2])
    \/ \E port \in UlaOutPorts : OutPorts(port)
    \/ \E port \in UlaInPorts : InPort(port)
    \/ \E value \in UlaChromaValues : Chroma81OutPort(value)
    \/ SerializeUla
    \/ NewZx81UlaScreen
    \/ \E n \in CutLengths : DeserializeUla(n)

SpecUlaSnapshot == InitUlaSnapshot /\ [][NextUlaSnapshot]_vars

\* The mutable timing state of a generator.
UlaState(u) ==
    << u.prevRregister, u.stateNmiGeneratorOn, u.ulaLineCounter, u.lineCounter,
       u.tstates, u.vsyncStartTstates, u.hsyncTstatesCounter, u.int38InNextCycle,
       u.hsync, u.vsync, u.noDisplay, u.borderColor, u.chroma81Mode,
       u.chroma81Enabled >>

(***************************************************************************)
(* C18 as claimed: serialize followed by deserialize into a generator just *)
(* constructed reproduces every piece of mutable timing state: R-register  *)
(* history, NMI-generator latch, sub-line counter, line counter, t-state   *)
(* accumulator, vsync start, hsync counter, pending-interrupt latch,       *)
(* hsync, vsync, no-display flag, border colour, chroma mode and enable.   *)
(***************************************************************************)
C18_Claimed_UlaRoundTrip ==
    (lastCall.op = "ula deserialize" /\ lastCall.ret = 0) =>
        UlaState(ula) = UlaState(saved)

\* The part of C18 about the fields other than the line counter.
UlaRoundTripButLineCounter ==
    (lastCall.op = "ula deserialize" /\ lastCall.ret = 0) =>
        UlaState([ula EXCEPT !.lineCounter = 0]) = UlaState([saved EXCEPT !.lineCounter = 0])

(***************************************************************************)
(* C19 as claimed: a deserialize that fails on a truncated buffer, after   *)
(* reading some but not all fields, leaves every state field of the        *)
(* peripheral at its value before the call.                                *)
(***************************************************************************)
C19_Claimed_FailedRestoreChangesNothing ==
    [][ (lastCall'.op \in {"deserialize", "ula deserialize"} /\ lastCall'.ret = -1) =>
            /\ UlaState(ula') = UlaState(ula)
            /\ UNCHANGED dmaVars ]_vars

(***************************************************************************)
(* SpecHsync: the sync state machine.  The caller lets up to MaxAdvance    *)
(* half scanlines of 104 t-states pass and then issues MaxUlaSteps calls   *)
(* chosen freely among execute after 16, 100, 191 and 450 t-states,        *)
(* OUT 0xFD, OUT 0xFE and IN 0xFE.                                         *)
(***************************************************************************)
MaxAdvance == 16

MaxUlaSteps == 4

HsyncExecuteArgs == {<<0, t>> : t \in {16, 100, 104, 191, 450}}

HsyncCalls ==
    {Call("ula execute", a) : a \in HsyncExecuteArgs \ {<<0, 104>>}}
    \cup {Call("out", <<port>>) : port \in UlaOutPorts}
    \cup {Call("in", <<port>>) : port \in UlaInPorts}

HsyncPrograms ==
    { Times(k, {Call("ula execute", <<0, 104>>)}) \o Times(MaxUlaSteps, HsyncCalls) :
        k \in 0 .. MaxAdvance }

InitHsync == InitBoth(HsyncPrograms, NewBorderColors)

NextHsync ==
    \/ \E a \in HsyncExecuteArgs : UlaExecute(a[1], a[2])
    \/ \E port \in UlaOutPorts : OutPorts(port)
    \/ \E port \in UlaInPorts : InPort(port)

SpecHsync == InitHsync /\ [][NextHsync]_vars

\* The step is an execute of the generator.
ExecuteStep == lastCall'.op = "ula execute" /\ prog' # prog

\* The hsync counter with the t-states of the execute step added.
HsyncCounterAdded == ula.hsyncTstatesCounter + lastCall'.value[2]

\* Both line counters are one further: the sub-line counter modulo 8.
LineCounted ==
    /\ ula'.ulaLineCounter = (ula.ulaLineCounter + 1) % 8
    /\ ula'.lineCounter = ula.lineCounter + 1

LineNotCounted ==
    /\ ula'.ulaLineCounter = ula.ulaLineCounter
    /\ ula'.lineCounter = ula.lineCounter

\* HSYNC is high when the field hsync is false ("off (high)"), low when true.
GoesLow ==
    ~ula.hsync /\ HsyncCounterAdded >= TSTATES_PER_SCANLINE - TSTATES_OF_HSYNC_LOW

ReturnsHigh == ula.hsync /\ HsyncCounterAdded >= TSTATES_PER_SCANLINE

(***************************************************************************)
(* C20 as claimed: while HSYNC is high and the hsync counter reaches       *)
(* 207 - 16 = 191, HSYNC goes low; while it is low and the counter reaches *)
(* 207, HSYNC returns high and the counter is reduced by 207; the sub-line *)
(* counter (modulo 8, in 0..7) and the line counter are each incremented   *)
(* by one on that exit to sync-high, and at no other moment.               *)
(***************************************************************************)
C20_Claimed_CountsOnSyncHigh ==
    [][ /\ ula'.ulaLineCounter \in 0 .. 7
        /\ ExecuteStep =>
              /\ GoesLow => ula'.hsync /\ ula'.hsyncTstatesCounter = HsyncCounterAdded
              /\ ReturnsHigh =>
                    /\ ~ula'.hsync
                    /\ ula'.hsyncTstatesCounter = HsyncCounterAdded - TSTATES_PER_SCANLINE
                    /\ LineCounted
              /\ ~ReturnsHigh => LineNotCounted
        /\ ~ExecuteStep =>
              /\ ula'.ulaLineCounter \in {ula.ulaLineCounter, 0}
              /\ ula'.lineCounter \in {ula.lineCounter, 0} ]_vars

(***************************************************************************)
(* C20 as amended: while HSYNC is high and the hsync counter reaches 191,  *)
(* HSYNC goes low, and on that entry to sync-low the sub-line counter      *)
(* (modulo 8, in 0..7) and the line counter are each incremented by one;   *)
(* while HSYNC is low and the counter reaches 207, HSYNC returns high and  *)
(* the counter is reduced by 207, nothing being counted; no other execute  *)
(* changes HSYNC or the line counters, and no other call increments them   *)
(* (an OUT may reset them to 0).                                           *)
(***************************************************************************)
C20_CountsOnSyncLow ==
    [][ /\ ula'.ulaLineCounter \in 0 .. 7
        /\ ExecuteStep =>
              /\ GoesLow =>
                    /\ ula'.hsync
                    /\ ula'.hsyncTstatesCounter = HsyncCounterAdded
                    /\ LineCounted
              /\ ReturnsHigh =>
                    /\ ~ula'.hsync
                    /\ ula'.hsyncTstatesCounter = HsyncCounterAdded - TSTATES_PER_SCANLINE
                    /\ LineNotCounted
              /\ (~GoesLow /\ ~ReturnsHigh) =>
                    /\ ula'.hsync = ula.hsync
                    /\ ula'.hsyncTstatesCounter = HsyncCounterAdded
                    /\ LineNotCounted
        /\ ~ExecuteStep =>
              /\ ula'.hsync = ula.hsync
              /\ ula'.ulaLineCounter \in {ula.ulaLineCounter, 0}
              /\ ula'.lineCounter \in {ula.lineCounter, 0} ]_vars

\* The ninth line since construction has just been counted: HSYNC went low,
\* the sub-line counter has wrapped around to 1.
C20_Witness ==
    /\ lastCall.op = "ula execute"
    /\ ula.hsync /\ ula.lineCounter = 9 /\ ula.ulaLineCounter = 1
    /\ ula.hsyncTstatesCounter >= TSTATES_PER_SCANLINE - TSTATES_OF_HSYNC_LOW

(***************************************************************************)
(* SpecVideo: the interrupts and the vertical sync of the video timing     *)
(* generator.  The caller issues MaxVideoCalls calls chosen freely among   *)
(* execute with bit 6 of R set or clear after 1 t-state, execute after     *)
(* 191, 499 and 130000 t-states, OUT on the ports 0xFC, 0xFD, 0xFE, 0xFF   *)
(* and 0x1FE, IN on the ports 0xFE and 0xFF.                               *)
(***************************************************************************)
MaxVideoCalls == 5

VideoExecuteArgs ==
    {<<0, 1>>, <<64, 1>>, <<0, 191>>, <<0, 499>>, <<0, 2 * TSTATES_PER_SCREEN>>}

VideoOutPorts == {252, 253, 254, 255, 510}

VideoInPorts == {254, 255}

VideoCalls ==
    {Call("ula execute", a) : a \in VideoExecuteArgs}
    \cup {Call("out", <<port>>) : port \in VideoOutPorts}
    \cup {Call("in", <<port>>) : port \in VideoInPorts}

VideoPrograms == { Times(MaxVideoCalls, VideoCalls) }

InitVideo == InitBoth(VideoPrograms, NewBorderColors)

NextVideo ==
    \/ \E a \in VideoExecuteArgs : UlaExecute(a[1], a[2])
    \/ \E port \in VideoOutPorts : OutPorts(port)
    \/ \E port \in VideoInPorts : InPort(port)

SpecVideo == InitVideo /\ [][NextVideo]_vars

\* The step is an OUT or an IN of the generator.
OutStep == lastCall'.op = "out" /\ prog' # prog

InStep == lastCall'.op = "in" /\ prog' # prog

(***************************************************************************)
(* C21: an execute raises a non-maskable interrupt, one, exactly when it   *)
(* increments the line counter while the NMI-generator latch is on; an     *)
(* execute that does not increment the line counter, or with the latch     *)
(* off, raises none, and neither does an OUT or an IN.  An OUT on a port   *)
(* whose low two address bits are 01 switches the latch off, on a port     *)
(* whose low two bits are 10 switches it on; nothing else changes it.      *)
(***************************************************************************)
C21_NmiOnCountedLines ==
    [][ /\ ExecuteStep =>
              /\ Raised(ula', TRUE) =
                    IF ula'.lineCounter = ula.lineCounter + 1 /\ ula.stateNmiGeneratorOn
                    THEN 1 ELSE 0
              /\ ula'.lineCounter \in {ula.lineCounter, ula.lineCounter + 1}
              /\ ula'.stateNmiGeneratorOn = ula.stateNmiGeneratorOn
        /\ OutStep =>
              /\ Raised(ula', TRUE) = 0
              /\ ula'.stateNmiGeneratorOn =
                    CASE lastCall'.value % 4 = 1 -> FALSE
                      [] lastCall'.value % 4 = 2 -> TRUE
                      [] OTHER -> ula.stateNmiGeneratorOn
        /\ InStep =>
              /\ Raised(ula', TRUE) = 0
              /\ ula'.stateNmiGeneratorOn = ula.stateNmiGeneratorOn ]_vars

\* The latch is on, and the execute that counted the second line has raised
\* the NMI.
C21_Witness ==
    /\ lastCall.op = "ula execute"
    /\ ula.stateNmiGeneratorOn /\ ula.lineCounter = 2
    /\ ula.interrupts = <<TRUE>>

(***************************************************************************)
(* C22: an IN on a port with address bit 0 clear, while the NMI generator  *)
(* is off and VSYNC is inactive, makes VSYNC active and records the        *)
(* current t-state count as the vsync start; an IN while the NMI generator *)
(* is on, on a port with address bit 0 set, or while VSYNC is already      *)
(* active leaves VSYNC and the vsync start unchanged; no execute and no    *)
(* OUT makes VSYNC active or moves the vsync start.                        *)
(***************************************************************************)
C22_VsyncRaisedByInput ==
    [][ /\ InStep =>
              IF lastCall'.value % 2 = 0 /\ ~ula.stateNmiGeneratorOn /\ ~ula.vsync
              THEN ula'.vsync /\ ula'.vsyncStartTstates = ula.tstates
              ELSE /\ ula'.vsync = ula.vsync
                   /\ ula'.vsyncStartTstates = ula.vsyncStartTstates
        /\ ~InStep =>
              /\ ula'.vsync => ula.vsync
              /\ ula'.vsyncStartTstates = ula.vsyncStartTstates ]_vars

\* An IN 0xFE after 499 t-states has raised VSYNC and recorded the 499.
C22_Witness ==
    /\ lastCall.op = "in" /\ lastCall.value = 254
    /\ ula.vsync /\ ula.vsyncStartTstates = 499 /\ ula.tstates = 499

(***************************************************************************)
(* C23: when an OUT ends an active VSYNC and the t-states elapsed since    *)
(* the vsync start are 500 or more, the line counter is reset to 0, the    *)
(* no-display flag is cleared and exactly one 'updateScreen' is emitted;   *)
(* after any OUT, VSYNC is inactive.                                       *)
(***************************************************************************)
C23_GenuineVsync ==
    [][ OutStep =>
            /\ ~ula'.vsync
            /\ EndsGenuineVsync(ula) =>
                  /\ ula'.lineCounter = 0
                  /\ ~ula'.noDisplay
                  /\ ula'.updateScreen = 1 ]_vars

\* An OUT has ended a VSYNC that began at 0 and lasted exactly 500 t-states,
\* during which a line had been counted.
C23_Witness ==
    /\ lastCall.op = "out"
    /\ ula.tstates = VSYNC_MINIMAL_TSTATES /\ ula.vsyncStartTstates = 0
    /\ ulaHist.genuine = VSYNC_MINIMAL_TSTATES
    /\ ula.updateScreen = 1 /\ ula.lineCounter = 0 /\ ~ula.vsync

\* An OUT on u ends a vertical sync that was low for less than the minimal time.
EndsShortVsync(u) == u.vsync /\ u.tstates - u.vsyncStartTstates < VSYNC_MINIMAL_TSTATES

(***************************************************************************)
(* C24: the end of a vertical sync that was low for less than 500 t-states *)
(* emits no 'updateScreen', leaves the line counter and the no-display     *)
(* flag as they are, and resets the sub-line counter to 0.                 *)
(***************************************************************************)
C24_ShortVsync ==
    [][ (OutStep /\ EndsShortVsync(ula)) =>
            /\ ula'.updateScreen = 0
            /\ ula'.lineCounter = ula.lineCounter
            /\ ula'.noDisplay = ula.noDisplay
            /\ ula'.ulaLineCounter = 0 ]_vars

\* A VSYNC that began at 1 was ended by an OUT 191 t-states later: the line
\* counted in between is still counted, the sub-line counter is back at 0.
C24_Witness ==
    /\ lastCall.op = "out"
    /\ ula.vsyncStartTstates = 1 /\ ula.tstates = 192 /\ ~ula.vsync
    /\ ula.lineCounter = 1 /\ ula.ulaLineCounter = 0 /\ ula.updateScreen = 0

\* In the caller's record h of the executes, the call i saw bit 6 of R at 0
\* where the call before it saw it at 1.
FallingEdge(h, i) == i > 1 /\ Bit(h[i].r, 6) = 0 /\ Bit(h[i - 1].r, 6) = 1

(***************************************************************************)
(* C25: an execute raises the maskable interrupt, once, exactly when the   *)
(* execute before it sampled bit 6 of R at 0 and the one before that       *)
(* sampled it at 1; the execute that samples the falling edge itself       *)
(* raises none, the first two executes of a generator raise none, and      *)
(* neither does an OUT or an IN.                                           *)
(***************************************************************************)
C25_Int38OneCallLater ==
    LET h == ulaHist.executes
    IN  /\ Len(h) = 3 =>
              /\ h[3].int38 = IF FallingEdge(h, 2) THEN 1 ELSE 0
              /\ FallingEdge(h, 3) => h[3].int38 = 0
        /\ Len(h) < 3 => \A i \in 1 .. Len(h) : h[i].int38 = 0
        /\ lastCall.op \in {"in", "out"} => Raised(ula, FALSE) = 0

\* R had bit 6 set, then clear, and the next execute has raised the interrupt
\* while sampling bit 6 set again.
C25_Witness ==
    /\ lastCall.op = "ula execute"
    /\ ulaHist.executes = << [r |-> 64, int38 |-> 0], [r |-> 0, int38 |-> 0],
                             [r |-> 64, int38 |-> 1] >>
    /\ Raised(ula, FALSE) = 1 /\ ~ula.int38InNextCycle

(***************************************************************************)
(* C26 as claimed: an execute after which more than two nominal frame      *)
(* periods (2 * 65000 t-states) have passed since the last genuine         *)
(* vertical sync, or since construction, and no VSYNC is going on, leaves  *)
(* the no-display flag set, whatever shorter vsync pulses have occurred in *)
(* between; an execute emits 'updateScreen' once when it sets the flag and *)
(* not while the flag stays set; the end of a genuine vertical sync clears *)
(* the flag.                                                               *)
(***************************************************************************)
C26_Claimed_NoDisplayAfterTwoFrames ==
    [][ /\ ExecuteStep =>
              /\ (ula'.tstates > ulaHist.genuine + 2 * TSTATES_PER_SCREEN /\ ~ula'.vsync)
                    => ula'.noDisplay
              /\ ula'.updateScreen = IF ~ula.noDisplay /\ ula'.noDisplay THEN 1 ELSE 0
        /\ (OutStep /\ EndsGenuineVsync(ula)) => ~ula'.noDisplay ]_vars

\* What execute does: the two frame periods are counted from the start of the
\* last VSYNC, whatever its length.
NoDisplayTwoFramesAfterVsyncStart ==
    [][ /\ ExecuteStep =>
              /\ ula'.noDisplay =
                    (ula.noDisplay \/ ula'.tstates > ula.vsyncStartTstates + 2 * TSTATES_PER_SCREEN)
              /\ ula'.updateScreen = IF ~ula.noDisplay /\ ula'.noDisplay THEN 1 ELSE 0
        /\ (OutStep /\ EndsGenuineVsync(ula)) => ~ula'.noDisplay ]_vars

(***************************************************************************)
(* SpecBus: the reads on the memory bus.  The memory holds, at 0x4000 and  *)
(* at 0xC000, bytes with bit 6 clear (0x3F, 0x80) or set (0x76, 0xFF); the *)
(* caller issues MaxBusReads reads, each an opcode fetch or another read   *)
(* with the bus-accurate generator, or a read with the frame-buffer        *)
(* generator.                                                              *)
(***************************************************************************)
MaxBusReads == 2

BusAddresses == {16384, 49152}

BusBytes == {63, 118, 128, 255}

Memories == [BusAddresses -> BusBytes]

BusCalls ==
    {Call(op, <<mem, addr64k>>) :
        op \in {"m1Read8", "read8", "frame buffer read8"},
        mem \in Memories, addr64k \in BusAddresses}

BusPrograms == { Times(MaxBusReads, BusCalls) }

InitBus == InitWith(BusPrograms)

NextBus ==
    \/ \E mem \in Memories, addr64k \in BusAddresses : M1Read8(mem, addr64k)
    \/ \E mem \in Memories, addr64k \in BusAddresses : Read8(mem, addr64k)
    \/ \E mem \in Memories, addr64k \in BusAddresses : FrameBufferRead8(mem, addr64k)

SpecBus == InitBus /\ [][NextBus]_vars

\* The byte the last read was made on: for an opcode fetch above 32k, the
\* byte of the RAM mirrored there (address bit 15 cleared).
ReadAddress == lastCall.value[2]

ByteAtAddress == lastCall.value[1][ReadAddress]

UnderlyingByte == lastCall.value[1][ReadAddress % 32768]

(***************************************************************************)
(* C27 as claimed: an opcode fetch at an address with bit 15 set returns   *)
(* 0x00 when bit 6 of the underlying memory byte is clear and the          *)
(* underlying byte when bit 6 is set; an opcode fetch with bit 15 clear    *)
(* returns the memory byte; every other memory read returns the memory     *)
(* byte, with the one and with the other video generator.                  *)
(***************************************************************************)
C27_Claimed_OnlyOpcodeFetchesIntercepted ==
    /\ lastCall.op = "m1Read8" =>
          lastCall.ret = IF ReadAddress >= 32768
                         THEN IF Bit(UnderlyingByte, 6) = 0 THEN 0 ELSE UnderlyingByte
                         ELSE ByteAtAddress
    /\ lastCall.op \in {"read8", "frame buffer read8"} => lastCall.ret = ByteAtAddress

\* The part of C27 about the bus-accurate generator.
BusAccurateInterception ==
    /\ lastCall.op = "m1Read8" =>
          lastCall.ret = IF ReadAddress >= 32768
                         THEN IF Bit(UnderlyingByte, 6) = 0 THEN 0 ELSE UnderlyingByte
                         ELSE ByteAtAddress
    /\ lastCall.op = "read8" => lastCall.ret = ByteAtAddress

(***************************************************************************)
(* SpecSlots: the slots of DisassemblyClass.  The caller issues            *)
(* MaxSlotCalls calls chosen freely among setCurrentSlots and slotsChanged *)
(* with one of SlotLists, and prepareRefresh.                              *)
(***************************************************************************)
MaxSlotCalls == 4

SlotLists == {<< >>, <<1>>, <<2>>, <<1, 2>>, <<1, 3>>, <<3, 1>>}

SlotCalls ==
    {Call(op, <<slots>>) : op \in {"setCurrentSlots", "slotsChanged"}, slots \in SlotLists}
    \cup {Call("prepareRefresh", << >>)}

SlotPrograms == { Times(MaxSlotCalls, SlotCalls) }

InitSlots == InitWith(SlotPrograms)

NextSlots ==
    \/ \E slots \in SlotLists : SetCurrentSlots(slots)
    \/ \E slots \in SlotLists : SlotsChanged(slots)
    \/ PrepareRefresh

SpecSlots == InitSlots /\ [][NextSlots]_vars

SlotsChangedStep == lastCall'.op = "slotsChanged" /\ prog' # prog

(***************************************************************************)
(* C28: slotsChanged(s) returns false exactly when the object holds slots  *)
(* (set by setCurrentSlots, or emptied by prepareRefresh) and these equal  *)
(* s in length and element by element in the same order; it returns true   *)
(* when no slots are held yet, when the lengths differ, when an element    *)
(* differs or the same elements come in another order; it changes nothing. *)
(* For every s, slotsChanged(s) right after setCurrentSlots(s) is false.   *)
(***************************************************************************)
C28_SlotsChanged ==
    [][ SlotsChangedStep =>
            LET s == lastCall'.value[1]
                same == /\ dis.slots # Undefined
                        /\ Len(dis.slots[1]) = Len(s)
                        /\ \A i \in 1 .. Len(s) : dis.slots[1][i] = s[i]
            IN  /\ lastCall'.ret = ~same
                /\ dis' = dis
                /\ (lastCall.op = "setCurrentSlots" /\ lastCall.value[1] = s)
                      => lastCall'.ret = FALSE ]_vars

\* The slots are [1, 3], and slotsChanged([3, 1]) has returned true.
C28_Witness ==
    /\ lastCall.op = "slotsChanged" /\ lastCall.value = << <<3, 1>> >>
    /\ dis.slots = << <<1, 3>> >>
    /\ lastCall.ret = TRUE

(***************************************************************************)
(* SpecCustom: the hooks of CustomCode.  The caller issues MaxHookCalls    *)
(* calls chosen freely among execute with a script that installs the       *)
(* handlers tick and receivedFromCustomUi or not, and the four hooks, the  *)
(* script's handler returning undefined or 0x7F or throwing an Error.      *)
(***************************************************************************)
MaxHookCalls == 3

HandlerSets == [receivedFromCustomUi : BOOLEAN, tick : BOOLEAN]

Handlers ==
    {Returns(Undefined), Returns(<<127>>), Throws("port not found"), Throws("x is not defined")}

Hooks == {"custom readPort", "custom writePort", "custom receivedFromCustomUi", "custom tick"}

CustomCalls ==
    {Call("custom execute", <<handlers>>) : handlers \in HandlerSets}
    \cup {Call(op, <<handler>>) : op \in Hooks, handler \in Handlers}

CustomPrograms == { Times(MaxHookCalls, CustomCalls) }

InitCustom == InitWith(CustomPrograms)

NextCustom ==
    \/ \E handlers \in HandlerSets : CustomExecute(handlers)
    \/ \E handler \in Handlers : CustomReadPort(handler)
    \/ \E handler \in Handlers : CustomWritePort(handler)
    \/ \E handler \in Handlers : CustomReceivedFromCustomUi(handler)
    \/ \E handler \in Handlers : CustomTick(handler)

SpecCustom == InitCustom /\ [][NextCustom]_vars

\* The name of the hook in the error message.
HookName(op) ==
    CASE op = "custom readPort" -> "readPort"
      [] op = "custom writePort" -> "writePort"
      [] op = "custom receivedFromCustomUi" -> "API.receivedFromCustomUi"
      [] op = "custom tick" -> "tick"

\* The script has installed a handler for the hook.
Installed(op) ==
    CASE op = "custom receivedFromCustomUi" -> customApi.receivedFromCustomUi
      [] op = "custom tick" -> customApi.tick
      [] OTHER -> TRUE

(***************************************************************************)
(* C29: when the script's handler of readPort, writePort, tick or          *)
(* receivedFromCustomUi throws an Error, the method of CustomCode raises   *)
(* an error whose message is a prefix naming the hook followed by the      *)
(* message of the handler's error; when the handler does not throw, no     *)
(* error is raised and readPort returns exactly the handler's value,       *)
(* undefined included; tick and receivedFromCustomUi without a handler     *)
(* installed raise nothing.                                                *)
(***************************************************************************)
C29_HookErrorsAreRaised ==
    lastCall.op \in Hooks =>
        LET handler == lastCall.value[1]
        IN  IF Installed(lastCall.op) /\ handler.kind = "throw"
            THEN /\ lastCall.ret.kind = "throw"
                 /\ lastCall.ret.message =
                       "Error during executing custom java script in '"
                       \o HookName(lastCall.op) \o "': " \o handler.message
            ELSE /\ lastCall.ret.kind = "return"
                 /\ lastCall.op = "custom readPort" => lastCall.ret.value = handler.value

\* The handler of tick, installed by the script, has thrown: tick has raised
\* the error with its prefix.
C29_Witness ==
    /\ lastCall.op = "custom tick" /\ customApi.tick
    /\ lastCall.value[1] = Throws("x is not defined")
    /\ lastCall.ret =
          Throws("Error during executing custom java script in 'tick': x is not defined")

(***************************************************************************)
(* SpecCommand: the commands after a transfer.  After one of the prefixes  *)
(* of SpecAny (addresses 0x0000 or 0xFFFF, block length 2, load, enable)   *)
(* the caller issues MaxCommands calls chosen freely among execute and     *)
(* the commands load (0xCF), continue (0xD3) and enable (0x87).            *)
(***************************************************************************)
MaxCommands == 4

CommandCalls == Wr({207, 211, 135}) \cup Ex

CommandPrograms == { p \o Times(MaxCommands, CommandCalls) : p \in AnyPrefix }

InitCommand == InitWith(CommandPrograms)

NextCommand ==
    \/ \E value \in Byte : WritePort(value)
    \/ Execute

SpecCommand == InitCommand /\ [][NextCommand]_vars

\* The step writes the byte to the idle decoder.
CommandStep(byte) ==
    lastCall'.op = "write" /\ lastCall'.value = byte /\ prog' # prog /\ Idle

(***************************************************************************)
(* C30: the load command (0xCF) sets the port-A address counter to the     *)
(* port-A start address, the port-B address counter to the port-B start    *)
(* address and the block counter to 0, and changes no other field; the     *)
(* continue command (0xD3) sets the block counter to 0 and changes no      *)
(* other field, the address counters included.  After either, the decoder  *)
(* is idle again: no parameter byte is awaited.                            *)
(***************************************************************************)
C30_LoadAndContinue ==
    [][ /\ CommandStep(207) =>
              /\ portAaddressCounterRR34' = portAstartAddress
              /\ portBaddressCounterRR56' = portBstartAddress
              /\ blockCounterRR12' = 0
        /\ CommandStep(211) =>
              /\ blockCounterRR12' = 0
              /\ UNCHANGED <<portAaddressCounterRR34, portBaddressCounterRR56>>
        /\ (CommandStep(207) \/ CommandStep(211)) =>
              /\ Idle' /\ nextDecodeBitMask' = 0
              /\ UNCHANGED <<RegisterFile, ReadSequence, DecodeState, Bus,
                             enabled, statusByteRR0, lastOperation>> ]_vars

\* A transfer of two bytes has moved the port-A address counter from 0xFFFF
\* to 0x0001 and the port-B counter from 0x0000 to 0xFFFE; continue has left
\* them there.
C30_Witness ==
    /\ lastCall.op = "write" /\ lastCall.value = 211 /\ sel.first = 211
    /\ portAstartAddress = 65535 /\ portAaddressCounterRR34 = 1
    /\ portBstartAddress = 0 /\ portBaddressCounterRR56 = 65534
    /\ blockCounterRR12 = 0 /\ Idle

\* The fields the bytes of WR1 (r = 1) and WR2 (r = 2) may write, the
\* decode state apart.
PortFields(r) ==
    IF r = 1 THEN {"portAisIo", "portAadd", "portAcycleLength"}
    ELSE {"portBisIo", "portBadd", "portBcycleLength", "zxnPrescalar"}

PortIsIoNow == IF sel.reg = 1 THEN portAisIo ELSE portBisIo

PortAddNow == IF sel.reg = 1 THEN portAadd ELSE portBadd

\* The bytes that follow the first byte of the WR1 or WR2 sequence being
\* written: the cycle-length byte if bit 6 of the first byte is set, and in
\* WR2 the prescalar byte if bit 5 of the cycle-length byte is set.
PortBytesDue ==
    IF Bit(sel.first, 6) = 0 THEN 0
    ELSE IF sel.reg = 2 /\ Len(sel.params) >= 1 /\ Bit(sel.params[1], 5) = 1 THEN 2
    ELSE 1

(***************************************************************************)
(* C31: the first byte of WR1 (port A) and of WR2 (port B) configures the  *)
(* port the same way: I/O exactly when bit 3 is set; address step 0 when   *)
(* bit 5 is set, else +1 when bit 4 is set, else -1; bit 6 gates one       *)
(* following cycle-length byte.  In WR2 only, bit 5 of the cycle-length    *)
(* byte gates one further byte, stored as the prescalar.  No field other   *)
(* than the port's own (and the decode state) is changed: the cycle length *)
(* keeps its value until the cycle-length byte, the prescalar until the    *)
(* prescalar byte.                                                         *)
(***************************************************************************)
C31_PortConfiguration ==
    sel.reg \in {1, 2} =>
        LET b == sel.first
            n == Len(sel.params)
        IN  /\ PortIsIoNow = (Bit(b, 3) = 1)
            /\ PortAddNow = (IF Bit(b, 5) = 1 THEN 0 ELSE IF Bit(b, 4) = 1 THEN 1 ELSE -1)
            /\ n <= PortBytesDue
            /\ Idle <=> n = PortBytesDue
            /\ n = 0 => nextDecodeBitMask = 64 * Bit(b, 6)
            /\ n = 0 => CycleLengthNow = CycleLengthBefore
            /\ n < 2 => zxnPrescalar = sel.pre.zxnPrescalar
            /\ n = 2 => zxnPrescalar = sel.params[2]
            /\ \A f \in DOMAIN This \ (PortFields(sel.reg) \cup {"writePortFunc", "nextDecodeBitMask"}) :
                   This[f] = sel.pre[f]

\* WR2 0x60 (bit 6 and bit 5: fixed address, memory) with the cycle-length
\* byte 0x21 and the prescalar byte 0xFF, after port B was programmed with
\* step +1 by the byte 0x50.
C31_Witness ==
    /\ sel.reg = 2 /\ sel.first = 96 /\ sel.params = <<33, 255>>
    /\ sel.pre.portBadd = 1 /\ portBadd = 0 /\ ~portBisIo
    /\ zxnPrescalar = 255 /\ sel.pre.zxnPrescalar = 0 /\ Idle

\* WR1 0x2C: bit 5 and bit 3 set, bit 4 clear: port A is I/O with a fixed address.
C31_WitnessPortA ==
    /\ sel.reg = 1 /\ sel.first = 44 /\ sel.params = << >>
    /\ portAisIo /\ portAadd = 0 /\ sel.pre.portAadd = 1 /\ Idle

(***************************************************************************)
(* WR4 alone: every first byte of WR4 (the four modes with the four        *)
(* combinations of the gating bits 2 and 3) and two bytes that are not,    *)
(* written to a freshly constructed controller.  0xCD is both a first byte *)
(* of WR4 and, when awaited, an address byte.                              *)
(***************************************************************************)
MaxModeWrites == 4

WR4FirstBytes == {129 + 32 * mode + 4 * gates : mode \in 0 .. 3, gates \in 0 .. 3}

ModeBytes == WR4FirstBytes \cup {18, 52}

ModePrograms == { Times(MaxModeWrites, Wr(ModeBytes)) }

InitMode == InitWith(ModePrograms)

NextMode == \E value \in Byte : WritePort(value)

SpecMode == InitMode /\ [][NextMode]_vars

C32_WitnessContinuous ==
    /\ sel.reg = 4 /\ sel.first = 169 /\ sel.params = <<205>>
    /\ sel.pre.burstMode /\ ~burstMode
    /\ High(portBstartAddress) = 205 /\ Low(portBstartAddress) = Low(sel.pre.portBstartAddress)

(***************************************************************************)
(* SpecState: the web view's observer.  After WR0 has programmed the block *)
(* length 1 or 2 the caller issues MaxStateCalls calls chosen freely among *)
(* getState, load, enable, execute and a read.                             *)
(***************************************************************************)
MaxStateCalls == 4

Gs == {Call("getState", 0)}

StateCalls == Gs \cup Wr({207, 135}) \cup Ex \cup Rd

StatePrograms ==
    { << Wr({125}), Wr({52}), Wr({18}), Wr({len}), Wr({0}) >>
          \o Times(MaxStateCalls, StateCalls) : len \in {1, 2} }

InitState == InitWith(StatePrograms)

NextState ==
    \/ \E value \in Byte : WritePort(value)
    \/ ReadPort
    \/ Execute
    \/ GetState

SpecState == InitState /\ [][NextState]_vars

\* The step is a call of getState.
GetStateStep == lastCall'.op = "getState" /\ prog' # prog

(***************************************************************************)
(* C36 as claimed: getState is a pure observer: it changes no state of the *)
(* controller, two consecutive calls with no operation between them return *)
(* equal objects, and the reported blockLength is the block length         *)
(* programmed through WR0.                                                 *)
(***************************************************************************)
C36_Claimed_GetStateIsPure ==
    [][ GetStateStep =>
          /\ UNCHANGED <<dmaVars, Bus>>
          /\ lastCall'.ret.blockLength = blockLength
          /\ lastCall.op = "getState" => lastCall'.ret = lastCall.ret ]_vars

\* What getState does keep: every field but its call counter, and the
\* other entries of the object are the fields of the controller.
GetStateKeepsTheRegisters ==
    [][ GetStateStep =>
          /\ UNCHANGED <<RegisterFile, Counters, ReadSequence, DecodeState, Bus,
                         enabled, statusByteRR0, lastOperation>>
          /\ bl' = bl + 1
          /\ lastCall'.ret.blockLength = bl'
          /\ lastCall'.ret.portAstartAddress = portAstartAddress
          /\ lastCall'.ret.portBstartAddress = portBstartAddress
          /\ lastCall'.ret.blockCounterRR12 = blockCounterRR12
          /\ lastCall'.ret.portAaddressCounterRR34 = portAaddressCounterRR34
          /\ lastCall'.ret.portBaddressCounterRR56 = portBaddressCounterRR56
          /\ lastCall'.ret.statusByteRR0 = statusByteRR0
          /\ lastCall'.ret.readMask = readMask % 128 ]_vars

(***************************************************************************)
(* C37: after every writePort call, in every reachable state, the decoder  *)
(* selects a register with the next byte (writePortFunc is decodeWRGroup)  *)
(* exactly when the pending-fields bitmask is 0; a register handler        *)
(* writeWR0..writeWR6 takes the next byte exactly when at least one        *)
(* parameter byte is pending.                                              *)
(***************************************************************************)
C37_SelectsExactlyWhenNothingPending ==
    /\ (writePortFunc = "decodeWRGroup") <=> (nextDecodeBitMask = 0)
    /\ (writePortFunc \in {HandlerOf(r) : r \in 0 .. 6}) <=> (PopCount(nextDecodeBitMask) >= 1)

\* WR0 0x7D with the first of its four parameter bytes written: three are
\* pending and writeWR0 takes the next byte.
C37_Witness ==
    /\ lastCall.op = "write" /\ sel.first = 125 /\ Len(sel.params) = 1
    /\ writePortFunc = "writeWR0" /\ nextDecodeBitMask = 112

\* The last parameter byte of a sequence has been written: nothing is
\* pending and the decoder selects a register again.
C37_WitnessDrained ==
    /\ lastCall.op = "write" /\ sel.first = 187 /\ Len(sel.params) = 1
    /\ writePortFunc = "decodeWRGroup" /\ nextDecodeBitMask = 0

\* One rotation of the read-sequence pointer, and k of them.
RotateOnce(bit) == IF 2 * bit > 127 THEN 1 ELSE 2 * bit

RECURSIVE RotateTimes(_, _)
RotateTimes(bit, k) == IF k = 0 THEN bit ELSE RotateOnce(RotateTimes(bit, k - 1))

\* The bit given as a power of two is set in the mask.
Selects(mask, bit) == (mask \div bit) % 2 = 1

(***************************************************************************)
(* C38: readPort always terminates.  In every state reachable from the     *)
(* constructor the read-sequence pointer is a single bit out of 0x01..0x80 *)
(* (never 0) and the read mask is a 7-bit value, so with a nonzero mask    *)
(* the search loop comes to a set bit of the mask after at most 7          *)
(* rotations; after a read with a nonzero mask the pointer is on a set bit *)
(* of the mask.                                                            *)
(***************************************************************************)
C38_ReadPortTerminates ==
    /\ lastReadSequenceBit \in {2 ^ k : k \in 0 .. 7}
    /\ readMask \in 0 .. 127
    /\ readMask # 0 =>
          \E k \in 1 .. 7 : Selects(readMask, RotateTimes(lastReadSequenceBit, k))
    /\ (lastCall.op = "read" /\ readMask # 0) =>
          /\ lastReadSequenceBit <= 64
          /\ Selects(readMask, lastReadSequenceBit)

\* The mask 0x01 with the pointer on bit 0: the read has taken all 7
\* rotations (0x02, ..., 0x40, 0x01) to come back to bit 0.
C38_Witness ==
    /\ lastCall.op = "read" /\ readMask = 1 /\ lastReadSequenceBit = 1
    /\ Len(readHist) >= 2
    /\ readHist[Len(readHist) - 1].bit = 1

(***************************************************************************)
(* C40: the block counter of the DMA controller is 0 in every reachable    *)
(* state: no sequence of port writes, reads and executes makes it nonzero, *)
(* so a read that selects the low or the high byte of the block counter    *)
(* (bit 1 or bit 2 of the read mask) returns 0.                            *)
(***************************************************************************)
C40_BlockCounterIsZero ==
    /\ blockCounterRR12 = 0
    /\ (lastCall.op = "read" /\ readMask # 0 /\ lastReadSequenceBit \in {2, 4}) =>
          lastCall.ret = 0

\* Two bytes have been transferred (the status byte has its bit 0 set and
\* port A's counter has moved on to 0x1236); the read selects the low byte
\* of the block counter and returns 0.
C40_Witness ==
    /\ lastCall.op = "read" /\ lastReadSequenceBit = 2 /\ Selects(readMask, 2)
    /\ statusByteRR0 % 2 = 1 /\ portAaddressCounterRR34 = 4662
    /\ blockLength = 2 /\ blockCounterRR12 = 0 /\ lastCall.ret = 0

(***************************************************************************)
(* C39: one execute of the bus-accurate generator performs at most one     *)
(* HSYNC transition and increments the line counter by at most one,        *)
(* however many cycles are passed to it.  No cycles are lost: between two  *)
(* resets of the hsync counter, the hsync counter plus 207 times the       *)
(* number of exits of HSYNC from low to high is the sum of all cycle       *)
(* counts passed to execute; and the hsync counter is never negative.      *)
(***************************************************************************)
C39_OneTransitionNoCycleLost ==
    [][ /\ ula'.hsyncTstatesCounter >= 0
        /\ ula'.hsyncTstatesCounter + TSTATES_PER_SCANLINE * ulaHist'.exits = ulaHist'.cycles
        /\ ExecuteStep =>
              /\ ula'.lineCounter \in {ula.lineCounter, ula.lineCounter + 1}
              /\ ula'.lineCounter = ula.lineCounter + 1 => (~ula.hsync /\ ula'.hsync)
              /\ ula'.hsync # ula.hsync =>
                     ula'.hsyncTstatesCounter \in
                         {HsyncCounterAdded, HsyncCounterAdded - TSTATES_PER_SCANLINE}
              /\ ulaHist'.exits \in {ulaHist.exits, ulaHist.exits + 1}
              /\ ulaHist'.cycles = ulaHist.cycles + lastCall'.value[2] ]_vars

\* Since the last reset 450 + 16 cycles were passed in two executes: the
\* first took HSYNC low and counted one line, the second returned it high
\* with 259 left in the counter, enough for a whole line more.
C39_Witness ==
    /\ lastCall.op = "ula execute" /\ lastCall.value[2] = 16
    /\ ulaHist.cycles = 466 /\ ulaHist.exits = 1
    /\ ula.hsyncTstatesCounter = 259 /\ ~ula.hsync

(***************************************************************************)
(* SpecDisasm: the disassembly of code without a source file.  The caller  *)
(* issues MaxDisasmCalls calls chosen freely among setNewAddresses (with   *)
(* no address, the PC, or the PC and a caller, all paged in; the registers *)
(* reporting one of ReportedSlots; the Remote holding one of               *)
(* RemoteMemories), prepareRefresh and getLinesForAddresses.               *)
(***************************************************************************)
MaxDisasmCalls == 3

\* No slot, and one slot with bank 1 or with bank 2.
ReportedSlots == {<< >>, <<1>>, <<2>>}

\* The PC at MemBase, the caller at MemBase + 2.
Stacks64k == {<< >>, <<MemBase>>, <<MemBase, MemBase + 2>>}

\* A one-byte and a two-byte instruction at MemBase.
RemoteMemories == {<<0, 0, 0>>, <<62, 0, 0>>}

LongStack(stack64k, slots) ==
    [i \in DOMAIN stack64k |-> createLongAddress(stack64k[i], slots)]

\* The sets of addresses asked for: the first instruction's address alone,
\* with its second byte, with the caller's address, and all four of bank 1.
LineQueries ==
    {<<MemBase>>, <<131072 + MemBase>>,
     <<131072 + MemBase, 131072 + MemBase + 1>>,
     <<131072 + MemBase + 2, 131072 + MemBase>>,
     <<131072 + MemBase, 131072 + MemBase + 1, 131072 + MemBase + 2, 131072 + MemBase + 3>>}

DisasmCalls ==
    {Call("setNewAddresses", <<LongStack(stack64k, slots), slots, remote>>) :
        stack64k \in Stacks64k, slots \in ReportedSlots, remote \in RemoteMemories}
    \cup {Call("prepareRefresh", << >>)}
    \cup {Call("getLinesForAddresses", <<addresses>>) : addresses \in LineQueries}

DisasmPrograms == { Times(MaxDisasmCalls, DisasmCalls) }

InitDisasm == InitWith(DisasmPrograms)

NextDisasm ==
    \/ \E stack64k \in Stacks64k, slots \in ReportedSlots, remote \in RemoteMemories :
           SetNewAddresses(LongStack(stack64k, slots), slots, remote)
    \/ PrepareRefresh
    \/ \E addresses \in LineQueries : GetLinesForAddresses(addresses)

SpecDisasm == InitDisasm /\ [][NextDisasm]_vars

\* The lines the map holds for the addresses of the last query.
LinesOfQuery ==
    {MapGet(dis.addrLineMap, a) :
        a \in {b \in Elements(lastCall.value[1]) : MapHas(dis.addrLineMap, b)}}

(***************************************************************************)
(* C35 as claimed: getLinesForAddresses(addresses) returns the line number *)
(* of every address of the set that has an entry in the address-to-line    *)
(* map, line number 0 included, and nothing else: the set of returned      *)
(* lines does not depend on whether the function loops over the map or     *)
(* over the addresses.                                                     *)
(***************************************************************************)
C35_Claimed_EveryMappedLine ==
    lastCall.op = "getLinesForAddresses" => Elements(lastCall.ret) = LinesOfQuery

\* What holds: the loop over the map returns every mapped line, the loop
\* over the addresses every mapped line but line 0.
LinesButLineZero ==
    lastCall.op = "getLinesForAddresses" =>
        Elements(lastCall.ret) =
            IF Len(lastCall.value[1]) > Len(dis.addrLineMap) THEN LinesOfQuery
            ELSE LinesOfQuery \ {0}

\* The step is a call of prepareRefresh, of setNewAddresses.
PrepareRefreshStep == lastCall'.op = "prepareRefresh" /\ prog' # prog

SetNewAddressesStep == lastCall'.op = "setNewAddresses" /\ prog' # prog

\* The call of the step has fetched the complete 64k memory from the Remote.
Fetched == <<0, 65536>> \in Elements(lastCall'.ret.reads)

(***************************************************************************)
(* C33 as claimed: after prepareRefresh the stored call-stack addresses    *)
(* are empty and the PC-address history is unchanged, and the next         *)
(* setNewAddresses call fetches the complete 64k memory from the Remote,   *)
(* does a new disassembly and returns true, whatever slots the registers   *)
(* report at that time.                                                    *)
(***************************************************************************)
C33_Claimed_RefreshAlwaysReloads ==
    [][ /\ PrepareRefreshStep =>
              /\ dis'.longCallStackAddresses = << >>
              /\ dis'.longPcAddressesHistory = dis.longPcAddressesHistory
        /\ (lastCall.op = "prepareRefresh" /\ SetNewAddressesStep) =>
              /\ Fetched
              /\ lastCall'.ret.disassembled
              /\ lastCall'.ret.ret = TRUE ]_vars

\* What holds: the reload is certain when the registers report at least one
\* slot; with the empty list reported, the call after prepareRefresh fetches
\* only if the byte at the PC has changed.
RefreshReloadsUnlessNoSlots ==
    [][ /\ PrepareRefreshStep =>
              /\ dis'.longCallStackAddresses = << >>
              /\ dis'.longPcAddressesHistory = dis.longPcAddressesHistory
              /\ dis'.slots = << << >> >>
        /\ (lastCall.op = "prepareRefresh" /\ SetNewAddressesStep) =>
              LET stack == lastCall'.value[1]
                  slots == lastCall'.value[2]
                  remote == lastCall'.value[3]
              IN  /\ slots # << >> =>
                        (Fetched /\ lastCall'.ret.disassembled /\ lastCall'.ret.ret = TRUE)
                  /\ slots = << >> =>
                        (Fetched <=>
                            /\ stack # << >>
                            /\ getValueAt(remote, stack[1] % 65536)
                                   # getValueAt(dis.memory, stack[1] % 65536)) ]_vars

\* Of the call of the step: the byte now at the PC differs from the cached
\* byte; one of the passed addresses is not marked as a first byte of code.
PcByteDiffers ==
    LET stack == lastCall'.value[1]
    IN  /\ stack # << >>
        /\ getValueAt(lastCall'.value[3], stack[1] % 65536)
               # getValueAt(dis.memory, stack[1] % 65536)

SomeAddressUnmarked ==
    \E i \in DOMAIN lastCall'.value[1] : lastCall'.value[1][i] % 65536 \notin dis.codeFirst

\* What setNewAddresses does besides the fetch, given the condition it
\* fetches on: it returns true exactly when it has done a disassembly, which
\* is when it fetched or an address was not marked, and when it returns
\* false the text and both maps are as before.
ReturnsTrueWhenDisassembled(fetchCondition) ==
    /\ Fetched <=> fetchCondition
    /\ lastCall'.ret.ret <=> lastCall'.ret.disassembled
    /\ lastCall'.ret.ret <=> (Fetched \/ SomeAddressUnmarked)
    /\ ~lastCall'.ret.ret =>
          /\ dis'.disassemblyText = dis.disassemblyText
          /\ dis'.addrLineMap = dis.addrLineMap
          /\ dis'.lineAddrArray = dis.lineAddrArray

(***************************************************************************)
(* C34 as claimed: setNewAddresses fetches the 64k memory exactly when the *)
(* slots changed since the last call (the first call counting as a         *)
(* change), or the slots are unchanged and the byte now at the current PC  *)
(* differs from the cached byte; it returns true exactly when a new        *)
(* disassembly was done, i.e. when memory was fetched or at least one of   *)
(* the passed addresses was not yet marked as the first byte of code; when *)
(* it returns false the text and both line/address maps are unchanged.     *)
(***************************************************************************)
C34_Claimed_FetchOnChangeSinceLastCall ==
    [][ SetNewAddressesStep =>
          LET changed == \/ disHist.slots = Undefined
                         \/ disHist.slots[1] # lastCall'.value[2]
          IN  ReturnsTrueWhenDisassembled(changed \/ (~changed /\ PcByteDiffers)) ]_vars

(***************************************************************************)
(* C34 as amended: setNewAddresses fetches the 64k memory exactly when the *)
(* reported slots differ from the slots the object holds (none before the  *)
(* first call, the empty list after prepareRefresh, else those of the last *)
(* call), or they are equal and the byte now at the current PC differs     *)
(* from the cached byte; it returns true exactly when a new disassembly    *)
(* was done, i.e. when memory was fetched or at least one of the passed    *)
(* addresses was not yet marked as the first byte of code; when it returns *)
(* false the text and both line/address maps are unchanged.                *)
(***************************************************************************)
C34_FetchOnChangeOfHeldSlots ==
    [][ SetNewAddressesStep =>
          LET changed == \/ dis.slots = Undefined
                         \/ dis.slots[1] # lastCall'.value[2]
          IN  ReturnsTrueWhenDisassembled(changed \/ (~changed /\ PcByteDiffers)) ]_vars

\* The slots are as held, and the opcode at the PC has changed from 0x00 to
\* 0x3E: the call has read the byte at the PC, fetched the memory and done a
\* disassembly in which the instruction has two bytes.
C34_Witness ==
    /\ lastCall.op = "setNewAddresses"
    /\ lastCall.value[2] = <<1>>
    /\ lastCall.ret.reads = << <<MemBase, 1>>, <<0, 65536>> >>
    /\ lastCall.ret.ret
    /\ dis.disassemblyText = << <<MemBase, 62>> >>
    /\ MapHas(dis.addrLineMap, 131072 + MemBase + 1)

\* Nothing has changed and the PC is known: the call has read the byte at
\* the PC only and returned false.
C34_WitnessUnchanged ==
    /\ lastCall.op = "setNewAddresses"
    /\ lastCall.ret.reads = << <<MemBase, 1>> >>
    /\ ~lastCall.ret.ret
    /\ dis.disassemblyText # << >>

====
